---- MODULE Spec2Model ----
(***************************************************************************)
(* GoParser: the crawl orchestrator (app.Runner), the rate-limited fetcher *)
(* (fetch.Client) and the chapter parser (parse.ParseChapter).             *)
(*                                                                         *)
(* A Go string is a sequence of characters; a character is a one-character *)
(* TLA+ string, or "U+xxxx" for a character whose UTF-8 encoding is longer *)
(* than one byte.  A parsed HTML document is a tree of nodes.              *)
(***************************************************************************)
EXTENDS Integers, Sequences, FiniteSets, TLC

\* ------------------------------------------------------------------------
\* Bounds of the model
\* ------------------------------------------------------------------------
\* most characters generated after the head of an href (see Hrefs)
MaxHrefLen == 2

\* largest MaxPages handed to NewRunner
MaxPagesBound == 3

\* ConsecutiveBRThreshold of the crawl's configuration (DefaultParserConfig)
BRThreshold == 3

\* ------------------------------------------------------------------------
\* strings
\* ------------------------------------------------------------------------
LowerSeq == <<"a","b","c","d","e","f","g","h","i","j","k","l","m",
              "n","o","p","q","r","s","t","u","v","w","x","y","z">>
UpperSeq == <<"A","B","C","D","E","F","G","H","I","J","K","L","M",
              "N","O","P","Q","R","S","T","U","V","W","X","Y","Z">>
Digits == {"0","1","2","3","4","5","6","7","8","9"}

IsLower(c) == \E i \in 1..Len(LowerSeq) : LowerSeq[i] = c
IsUpper(c) == \E i \in 1..Len(UpperSeq) : UpperSeq[i] = c
IsLetter(c) == IsLower(c) \/ IsUpper(c)
IsDigit(c) == c \in Digits

\* unicode.ToLower on one character: the ASCII capitals, and U+00C2, the one
\* other capital among the characters of the model; every other character
\* the model uses maps to itself
ToLowerChar(c) ==
  IF IsUpper(c) THEN LowerSeq[CHOOSE i \in 1..Len(UpperSeq) : UpperSeq[i] = c]
  ELSE IF c = "U+00C2" THEN "U+00E2"
  ELSE c

\* strings.ToLower
ToLower(s) == [i \in 1..Len(s) |-> ToLowerChar(s[i])]

\* unicode.IsSpace, on the white space the model uses; U+00A0 is the
\* no-break space
IsSpace(c) == c \in {" ", "\t", "\n", "U+00A0"}

\* \s of package regexp: the ASCII white space only
IsReSpace(c) == c \in {" ", "\t", "\n"}

\* a control byte (< 0x20 or 0x7f) in the sense of net/url's stringContainsCTLByte
IsCTL(c) == c \in {"\t", "\n"}

\* the number of bytes of the UTF-8 encoding of a character
Utf8Len(c) ==
  IF c \in {"U+00A0", "U+00BB", "U+00C2", "U+00E2", "U+00E9"} THEN 2
  ELSE IF c \in {"U+2014", "U+2019", "U+201D", "U+2020", "U+20AC", "U+2192"} THEN 3
  ELSE 1

\* len(s): Go's len of a string counts bytes
RECURSIVE ByteLen(_)
ByteLen(s) == IF s = <<>> THEN 0 ELSE Utf8Len(Head(s)) + ByteLen(Tail(s))

\* utf8.RuneCountInString: the number of characters
RuneCount(s) == Len(s)

\* the text after a leading \s* of a regular expression
RECURSIVE SkipReSpace(_)
SkipReSpace(s) ==
  IF s # <<>> /\ IsReSpace(Head(s)) THEN SkipReSpace(Tail(s)) ELSE s

RECURSIVE TrimLeftSpace(_)
TrimLeftSpace(s) ==
  IF s # <<>> /\ IsSpace(Head(s)) THEN TrimLeftSpace(Tail(s)) ELSE s

RECURSIVE TrimRightSpace(_)
TrimRightSpace(s) ==
  IF s # <<>> /\ IsSpace(s[Len(s)])
  THEN TrimRightSpace(SubSeq(s, 1, Len(s) - 1))
  ELSE s

\* strings.TrimSpace
TrimSpace(s) == TrimRightSpace(TrimLeftSpace(s))

\* strings.HasPrefix
HasPrefix(s, p) == Len(s) >= Len(p) /\ SubSeq(s, 1, Len(p)) = p

\* strings.Index, 1-based; 0 when sub does not occur
IndexOf(s, sub) ==
  LET hits == {i \in 1..(Len(s) - Len(sub) + 1) : SubSeq(s, i, i + Len(sub) - 1) = sub}
  IN IF hits = {} THEN 0 ELSE CHOOSE i \in hits : \A j \in hits : i <= j

\* strings.LastIndex, 1-based; 0 when sub does not occur
LastIndexOf(s, sub) ==
  LET hits == {i \in 1..(Len(s) - Len(sub) + 1) : SubSeq(s, i, i + Len(sub) - 1) = sub}
  IN IF hits = {} THEN 0 ELSE CHOOSE i \in hits : \A j \in hits : i >= j

\* strings.Contains
Contains(s, sub) == IndexOf(s, sub) # 0

\* the part of s after its first n characters
Drop(s, n) == SubSeq(s, n + 1, Len(s))

\* strings.Cut: <<before, after, found>>
Cut(s, sep) ==
  LET i == IndexOf(s, sep)
  IN IF i = 0 THEN <<s, <<>>, FALSE>>
     ELSE <<SubSeq(s, 1, i - 1), Drop(s, i + Len(sep) - 1), TRUE>>

\* the concatenation of a sequence of strings
RECURSIVE Concat(_)
Concat(ss) == IF ss = <<>> THEN <<>> ELSE Head(ss) \o Concat(Tail(ss))

\* strings.Join
RECURSIVE Join(_, _)
Join(ss, sep) ==
  IF ss = <<>> THEN <<>>
  ELSE IF Len(ss) = 1 THEN ss[1]
  ELSE ss[1] \o sep \o Join(Tail(ss), sep)

\* strings.Fields: the maximal runs of non-space characters
RECURSIVE FieldsFrom(_, _, _)
FieldsFrom(s, cur, acc) ==
  IF s = <<>> THEN (IF cur = <<>> THEN acc ELSE Append(acc, cur))
  ELSE IF IsSpace(Head(s))
       THEN FieldsFrom(Tail(s), <<>>, IF cur = <<>> THEN acc ELSE Append(acc, cur))
       ELSE FieldsFrom(Tail(s), Append(cur, Head(s)), acc)

Fields(s) == FieldsFrom(s, <<>>, <<>>)

\* ------------------------------------------------------------------------
\* net/url as resolveURL uses it, on URLs made of letters, digits and
\* ':' '/' '.' '-' ' ' (no query, fragment, userinfo, '%' or '[')
\* ------------------------------------------------------------------------
NoURL == [Scheme |-> <<>>, Opaque |-> <<>>, Host |-> <<>>, Path |-> <<>>, OmitHost |-> FALSE]

\* url.getScheme: <<scheme, rest, ok>>
RECURSIVE getSchemeFrom(_, _)
getSchemeFrom(rawURL, i) ==
  IF i > Len(rawURL) THEN <<<<>>, rawURL, TRUE>>
  ELSE LET c == rawURL[i]
       IN IF IsLetter(c) THEN getSchemeFrom(rawURL, i + 1)
          ELSE IF IsDigit(c) \/ c \in {"+", "-", "."}
               THEN (IF i = 1 THEN <<<<>>, rawURL, TRUE>> ELSE getSchemeFrom(rawURL, i + 1))
          ELSE IF c = ":"
               THEN (IF i = 1 THEN <<<<>>, <<>>, FALSE>>
                     ELSE <<SubSeq(rawURL, 1, i - 1), Drop(rawURL, i), TRUE>>)
          ELSE <<<<>>, rawURL, TRUE>>

getScheme(rawURL) == getSchemeFrom(rawURL, 1)

\* url.validOptionalPort on the text from the host's last ':'
validOptionalPort(port) ==
  port = <<>> \/ (Head(port) = ":" /\ \A i \in 2..Len(port) : IsDigit(port[i]))

\* url.shouldEscape(c, encodeHost)
shouldEscapeHost(c) ==
  ~(IsLetter(c) \/ IsDigit(c) \/ c \in {"-", "_", ".", "~", ":", "+", "=", ";", ","})

\* url.shouldEscape(c, encodePath)
shouldEscapePath(c) ==
  ~(IsLetter(c) \/ IsDigit(c) \/ c \in {"-", "_", ".", "~", ":", "/", "+", "=", ";", ",", "@", "&", "$"})

\* url.parseHost: whether the authority is accepted as a host
parseHostOK(host) ==
  /\ LET i == LastIndexOf(host, <<":">>)
     IN i = 0 \/ validOptionalPort(Drop(host, i - 1))
  /\ \A i \in 1..Len(host) : ~shouldEscapeHost(host[i])

\* the two upper-case hexadecimal digits of the bytes url.escape writes as %XX
HexOf(c) ==
  IF c = " " THEN <<"2", "0">>
  ELSE IF c = "\"" THEN <<"2", "2">>
  ELSE IF c = "<" THEN <<"3", "C">>
  ELSE IF c = ">" THEN <<"3", "E">>
  ELSE <<"2", "5">>

\* the characters HexOf encodes
Escapable == {" ", "\"", "<", ">", "%"}

\* url.escape(s, encodePath)
RECURSIVE escapePath(_)
escapePath(s) ==
  IF s = <<>> THEN <<>>
  ELSE (IF shouldEscapePath(Head(s)) THEN <<"%">> \o HexOf(Head(s)) ELSE <<Head(s)>>)
       \o escapePath(Tail(s))

\* url.unescape(s, encodePath), of what escapePath produces
RECURSIVE unescapePath(_)
unescapePath(s) ==
  IF s = <<>> THEN <<>>
  ELSE IF Head(s) = "%" /\ Len(s) >= 3 /\ \E c \in Escapable : HexOf(c) = SubSeq(s, 2, 3)
       THEN <<CHOOSE c \in Escapable : HexOf(c) = SubSeq(s, 2, 3)>> \o unescapePath(Drop(s, 3))
  ELSE <<Head(s)>> \o unescapePath(Tail(s))

\* URL.EscapedPath: RawPath is never a valid encoding here, so escape(Path)
EscapedPath(u) == escapePath(u.Path)

\* url.Parse: [ok, url]
urlParse(rawURL) ==
  IF \E i \in 1..Len(rawURL) : IsCTL(rawURL[i]) THEN [ok |-> FALSE, url |-> NoURL]
  ELSE
  LET gs == getScheme(rawURL)
      scheme == ToLower(gs[1])
      rest == gs[2]
  IN IF ~gs[3] THEN [ok |-> FALSE, url |-> NoURL]
     ELSE IF ~HasPrefix(rest, <<"/">>) /\ scheme # <<>>
          THEN [ok |-> TRUE, url |-> [NoURL EXCEPT !.Scheme = scheme, !.Opaque = rest]]
     ELSE IF ~HasPrefix(rest, <<"/">>) /\ Contains(Cut(rest, <<"/">>)[1], <<":">>)
          THEN [ok |-> FALSE, url |-> NoURL]
     ELSE IF (scheme # <<>> \/ ~HasPrefix(rest, <<"/", "/", "/">>)) /\ HasPrefix(rest, <<"/", "/">>)
          THEN LET auth0 == Drop(rest, 2)
                   i == IndexOf(auth0, <<"/">>)
                   authority == IF i = 0 THEN auth0 ELSE SubSeq(auth0, 1, i - 1)
                   path == IF i = 0 THEN <<>> ELSE Drop(auth0, i - 1)
               IN IF ~parseHostOK(authority) THEN [ok |-> FALSE, url |-> NoURL]
                  ELSE [ok |-> TRUE,
                        url |-> [NoURL EXCEPT !.Scheme = scheme, !.Host = authority,
                                              !.Path = unescapePath(path)]]
     ELSE [ok |-> TRUE,
           url |-> [NoURL EXCEPT !.Scheme = scheme, !.Path = unescapePath(rest),
                                 !.OmitHost = (scheme # <<>> /\ HasPrefix(rest, <<"/">>))]]

\* the loop of url.resolvePath over the "/"-separated elements of the path:
\* dst is the text written after the leading "/"
RECURSIVE resolveElems(_, _, _)
resolveElems(remaining, dst, first) ==
  LET c == Cut(remaining, <<"/">>)
      elem == c[1]
      last == ~c[3]
      tail == IF elem = <<".">> \/ elem = <<".", ".">> THEN <<"/">> ELSE <<>>
      step ==
        IF elem = <<".">> THEN <<dst, FALSE>>
        ELSE IF elem = <<".", ".">>
             THEN LET index == LastIndexOf(dst, <<"/">>)
                  IN IF index = 0 THEN <<<<>>, TRUE>>
                     ELSE <<SubSeq(dst, 1, index - 1), first>>
        ELSE <<(IF first THEN dst ELSE dst \o <<"/">>) \o elem, FALSE>>
  IN IF last THEN step[1] \o tail ELSE resolveElems(c[2], step[1], step[2])

\* url.resolvePath
resolvePath(base, ref) ==
  LET full == IF ref = <<>> THEN base
              ELSE IF Head(ref) # "/"
                   THEN SubSeq(base, 1, LastIndexOf(base, <<"/">>)) \o ref
              ELSE ref
      r == <<"/">> \o resolveElems(full, <<>>, TRUE)
  IN IF full = <<>> THEN <<>>
     ELSE IF Len(r) > 1 /\ r[2] = "/" THEN Tail(r) ELSE r

\* URL.setPath of an escaped path
setPath(u, p) == [u EXCEPT !.Path = unescapePath(p)]

\* URL.ResolveReference
ResolveReference(u, ref) ==
  LET url == IF ref.Scheme = <<>> THEN [ref EXCEPT !.Scheme = u.Scheme] ELSE ref
  IN IF ref.Scheme # <<>> \/ ref.Host # <<>>
     THEN setPath(url, resolvePath(EscapedPath(ref), <<>>))
     ELSE IF ref.Opaque # <<>>
          THEN [url EXCEPT !.Host = <<>>, !.Path = <<>>]
     ELSE IF ref.Path = <<>> /\ u.Opaque # <<>>
          THEN [url EXCEPT !.Opaque = u.Opaque, !.Host = <<>>, !.Path = <<>>]
     ELSE setPath([url EXCEPT !.Host = u.Host],
                  resolvePath(EscapedPath(u), EscapedPath(ref)))

\* URL.String
urlString(u) ==
  LET schemePart == IF u.Scheme # <<>> THEN u.Scheme \o <<":">> ELSE <<>>
      path == EscapedPath(u)
      hostPart ==
        IF u.Scheme # <<>> \/ u.Host # <<>>
        THEN (IF u.OmitHost /\ u.Host = <<>> THEN <<>>
              ELSE (IF u.Host # <<>> \/ u.Path # <<>> THEN <<"/", "/">> ELSE <<>>) \o u.Host)
        ELSE <<>>
      slash == IF path # <<>> /\ Head(path) # "/" /\ u.Host # <<>> THEN <<"/">> ELSE <<>>
      buf == schemePart \o hostPart \o slash
      dotSlash == IF buf = <<>> /\ Contains(Cut(path, <<"/">>)[1], <<":">>)
                  THEN <<".", "/">> ELSE <<>>
  IN IF u.Opaque # <<>> THEN schemePart \o u.Opaque
     ELSE buf \o dotSlash \o path

\* resolveURL without its test for an href that is absolute already
resolveURLAlwaysResolving(baseStr, href0) ==
  LET href == TrimSpace(href0)
      h == urlParse(href)
      bu == urlParse(baseStr)
  IN IF href = <<>> THEN <<>>
     ELSE IF ~h.ok THEN <<>>
     ELSE IF ~bu.ok THEN <<>>
     ELSE urlString(ResolveReference(bu.url, h.url))

\* app.resolveURL: "" when the href is blank or either URL does not parse
resolveURL(baseStr, href0) ==
  LET href == TrimSpace(href0)
      h == urlParse(href)
      bu == urlParse(baseStr)
  IN IF href = <<>> THEN <<>>
     ELSE IF ~h.ok THEN <<>>
     ELSE IF h.url.Scheme # <<>> /\ h.url.Host # <<>> THEN urlString(h.url)
     ELSE IF ~bu.ok THEN <<>>
     ELSE urlString(ResolveReference(bu.url, h.url))

\* ------------------------------------------------------------------------
\* the string literals of package parse, as character sequences
\* ------------------------------------------------------------------------
AMP == <<"&", "a", "m", "p", ";">>

LT == <<"&", "l", "t", ";">>

GT == <<"&", "g", "t", ";">>

APOS == <<"&", "#", "3", "9", ";">>

QUOT == <<"&", "#", "3", "4", ";">>

HR_HTML == <<"<", "h", "r", " ", "c", "l", "a", "s", "s", "=", "\"", "s", "c", "e", "n", "e", "-", "b", "r", "e", "a", "k", "\"", "/", ">">>

HR_PREFIX == <<"<", "h", "r", " ", "c", "l", "a", "s", "s", "=", "\"", "s", "c", "e", "n", "e", "-", "b", "r", "e", "a", "k", "\"">>

SPACER_HTML == <<"<", "p", " ", "c", "l", "a", "s", "s", "=", "\"", "s", "p", "a", "c", "e", "r", "\"", ">", "<", "/", "p", ">">>

STYLE_SPACER == <<"s", "p", "a", "c", "e", "r">>

STYLE_NONE == <<"n", "o", "n", "e">>

STYLE_HR == <<"h", "r">>

I_OPEN == <<"<", "i", ">">>

I_CLOSE == <<"<", "/", "i", ">">>

B_OPEN == <<"<", "b", ">">>

B_CLOSE == <<"<", "/", "b", ">">>

U_OPEN == <<"<", "u", ">">>

U_CLOSE == <<"<", "/", "u", ">">>

BR_HTML == <<"<", "b", "r", "/", ">">>

A_OPEN == <<"<", "a", " ", "h", "r", "e", "f", "=", "\"">>

A_OPEN_END == <<"\"", ">">>

A_CLOSE == <<"<", "/", "a", ">">>

P_TAG == <<"p">>

BLOCKQUOTE_TAG == <<"b", "l", "o", "c", "k", "q", "u", "o", "t", "e">>

NEWLINE == <<"\n">>

OG_TITLE == <<"o", "g", ":", "t", "i", "t", "l", "e">>

UNTITLED == <<"U", "n", "t", "i", "t", "l", "e", "d", " ", "C", "h", "a", "p", "t", "e", "r">>

NEXT_LOWER == <<"n", "e", "x", "t">>

NEXT_TEXT == <<"N", "e", "x", "t">>

NEXT_CHAPTER == NEXT_TEXT \o <<" ", "C", "h", "a", "p", "t", "e", "r">>

NEXT_PAGE == NEXT_TEXT \o <<" ", "P", "a", "g", "e">>


\* ------------------------------------------------------------------------
\* parsed HTML (golang.org/x/net/html nodes as goquery hands them over).
\* An element's class attribute is kept as its list of class names and its
\* id as a name; the other attribute values are strings.  A node of the
\* document is addressed by its path: the child indexes from the root.
\* ------------------------------------------------------------------------
Txt(data) ==
  [kind |-> "text", name |-> "", class |-> <<>>, id |-> "", attrs |-> <<>>,
   data |-> data, kids |-> <<>>]

El(name, kids) ==
  [kind |-> "elem", name |-> name, class |-> <<>>, id |-> "", attrs |-> <<>>,
   data |-> <<>>, kids |-> kids]

ElC(name, class, kids) == [El(name, kids) EXCEPT !.class = <<class>>]

ElA(name, attrs, kids) == [El(name, kids) EXCEPT !.attrs = attrs]

Comment(data) == [Txt(data) EXCEPT !.kind = "comment"]

DocNode(kids) == [El("", kids) EXCEPT !.kind = "doc"]

\* Selection.Attr: [ok, val] of the first attribute with the key
Attr(n, key) ==
  LET hits == {i \in 1..Len(n.attrs) : n.attrs[i][1] = key}
  IN IF hits = {} THEN [ok |-> FALSE, val |-> <<>>]
     ELSE [ok |-> TRUE, val |-> n.attrs[CHOOSE i \in hits : \A j \in hits : i <= j][2]]

RECURSIVE NodeAt(_, _)
NodeAt(n, path) ==
  IF path = <<>> THEN n ELSE NodeAt(n.kids[Head(path)], Tail(path))

\* the descendants of the node n at path p, as paths, in document pre-order
RECURSIVE DescPaths(_, _)
DescPaths(n, p) ==
  Concat([i \in 1..Len(n.kids) |->
            <<p \o <<i>>>> \o DescPaths(n.kids[i], p \o <<i>>)])

\* a walk that visits the children from the last to the first
RECURSIVE walkBackwards(_)
walkBackwards(n) ==
  Concat([i \in 1..Len(n.kids) |->
            <<n.kids[Len(n.kids) + 1 - i]>> \o walkBackwards(n.kids[Len(n.kids) + 1 - i])])

\* walk / iterateDescendants: the descendants of n in document pre-order
RECURSIVE walk(_)
walk(n) == Concat([i \in 1..Len(n.kids) |-> <<n.kids[i]>> \o walk(n.kids[i])])

\* a compound selector: tag, class and id, "" for any
Sel(tag, class, id) == [tag |-> tag, class |-> class, id |-> id]
Tag(t) == Sel(t, "", "")
Class(c) == Sel("", c, "")

MatchesCompound(n, c) ==
  /\ n.kind = "elem"
  /\ c.tag = "" \/ n.name = c.tag
  /\ c.class = "" \/ \E i \in 1..Len(n.class) : n.class[i] = c.class
  /\ c.id = "" \/ n.id = c.id

\* a complex selector is a sequence of compounds joined by the descendant
\* combinator: the node matches the last, some ancestor the rest
RECURSIVE MatchesComplex(_, _, _)
MatchesComplex(doc, path, sel) ==
  /\ MatchesCompound(NodeAt(doc, path), sel[Len(sel)])
  /\ \/ Len(sel) = 1
     \/ \E k \in 1..(Len(path) - 1) :
          MatchesComplex(doc, SubSeq(path, 1, k), SubSeq(sel, 1, Len(sel) - 1))

\* Selection.Find of a selector group below the node at path scope: the
\* matching descendants in document order
Find(doc, scope, group) ==
  LET ps == DescPaths(NodeAt(doc, scope), scope)
  IN Concat([i \in 1..Len(ps) |->
               IF \E j \in 1..Len(group) : MatchesComplex(doc, ps[i], group[j])
               THEN <<ps[i]>> ELSE <<>>])

\* Selection.First: at most the first element
First(sel) == IF sel = <<>> THEN <<>> ELSE <<Head(sel)>>

\* Selection.Text of one node: its text nodes, concatenated
RECURSIVE TextOf(_)
TextOf(n) ==
  IF n.kind = "text" THEN n.data
  ELSE Concat([i \in 1..Len(n.kids) |-> TextOf(n.kids[i])])

\* the subtree of n without the descendants that match the compound
\* selector: node.Find(sel).Each(Remove)
RECURSIVE removeMatching(_, _)
removeMatching(n, sel) ==
  [n EXCEPT !.kids =
     Concat([k \in 1..Len(n.kids) |->
               IF MatchesCompound(n.kids[k], sel) THEN <<>>
               ELSE <<removeMatching(n.kids[k], sel)>>])]

\* the tree with the node at path replaced by node
RECURSIVE ReplaceAt(_, _, _)
ReplaceAt(n, path, node) ==
  IF path = <<>> THEN node
  ELSE [n EXCEPT !.kids[Head(path)] = ReplaceAt(n.kids[Head(path)], Tail(path), node)]

\* an escaping that forgets the angle brackets and the quotes
EscapeCharAmpOnly(c) == IF c = "&" THEN AMP ELSE <<c>>

\* html.EscapeString
EscapeChar(c) ==
  IF c = "&" THEN AMP
  ELSE IF c = "<" THEN LT
  ELSE IF c = ">" THEN GT
  ELSE IF c = "'" THEN APOS
  ELSE IF c = "\"" THEN QUOT
  ELSE <<c>>

EscapeString(s) == Concat([i \in 1..Len(s) |-> EscapeChar(s[i])])

\* ------------------------------------------------------------------------
\* package parse
\* ------------------------------------------------------------------------
\* the selectors of stripNoise, in its order
NoiseSelectors ==
  <<Tag("nav"), Tag("header"), Tag("footer"), Class("sharedaddy"),
    Class("jp-relatedposts"), Class("post-meta"), Class("post-navigation"),
    Class("entry-footer"), Class("site-footer"), Tag("script"), Tag("style"),
    Tag("figure"), Tag("aside"), Tag("iframe"), Class("adsbygoogle")>>

\* findContent's fallback group: article, main, .content, #content
FallbackSelectors ==
  <<<<Tag("article")>>, <<Tag("main")>>, <<Class("content")>>, <<Sel("", "", "content")>>>>

\* findContent: the path of the content root, <<>> wrapped in a selection
RECURSIVE findCandidate(_, _)
findCandidate(doc, candidates) ==
  IF candidates = <<>> THEN <<>>
  ELSE LET n == First(Find(doc, <<>>, <<Head(candidates)>>))
       IN IF n # <<>> THEN n ELSE findCandidate(doc, Tail(candidates))

findContent(doc, candidates) ==
  LET n == findCandidate(doc, candidates)
      f == First(Find(doc, <<>>, FallbackSelectors))
  IN IF n # <<>> THEN n
     ELSE IF f # <<>> THEN f
     ELSE First(Find(doc, <<>>, <<<<Tag("body")>>>>))

\* stripNoise's loop over its selectors, on the content node
RECURSIVE stripNoiseFrom(_, _)
stripNoiseFrom(node, sels) ==
  IF sels = <<>> THEN node
  ELSE stripNoiseFrom(removeMatching(node, Head(sels)), Tail(sels))

\* a stripping that is not scoped to the content node
stripNoiseEverywhere(doc, content) == stripNoiseFrom(doc, NoiseSelectors)

\* stripNoise: the document after removing, selector by selector, every
\* match below the content node (at path content)
stripNoise(doc, content) ==
  ReplaceAt(doc, content, stripNoiseFrom(NodeAt(doc, content), NoiseSelectors))

\* nodeText: the text below n with white space collapsed
RECURSIVE rawNodeText(_)
rawNodeText(n) ==
  IF n.kind = "text" THEN n.data
  ELSE IF n.kind = "elem"
       THEN Concat([i \in 1..Len(n.kids) |-> rawNodeText(n.kids[i])])
  ELSE <<>>

nodeText(n) == Join(Fields(rawNodeText(n)), <<" ">>)

\* regexp.MatchString of a scene-break pattern, named by its source text
MatchPattern(pat, txt) ==
  IF pat = "^[-_*]{3,}$"
  THEN Len(txt) >= 3 /\ \A i \in 1..Len(txt) : txt[i] \in {"-", "_", "*"}
  ELSE IF pat = "^\\* *\\* *\\* *$"
  THEN /\ \A i \in 1..Len(txt) : txt[i] \in {"*", " "}
       /\ Cardinality({i \in 1..Len(txt) : txt[i] = "*"}) = 3
       /\ txt # <<>> /\ Head(txt) = "*"
  ELSE IF pat = "^U+00E2U+20ACU+201D+$"
  THEN /\ Len(txt) >= 3 /\ txt[1] = "U+00E2" /\ txt[2] = "U+20AC"
       /\ \A i \in 3..Len(txt) : txt[i] = "U+201D"
  ELSE IF pat = "^U+00E2U+20ACU+00A0$"
  THEN txt = <<"U+00E2", "U+20AC", "U+00A0">>
  ELSE FALSE

isSceneBreakText(txt, pats) ==
  /\ TrimSpace(txt) # <<>>
  /\ \E i \in 1..Len(pats) : MatchPattern(pats[i], txt)

\* a marker that is the rule whatever the style
emitSceneBreakAlwaysRule(style) == HR_HTML

emitSceneBreak(style) ==
  IF ToLower(style) = STYLE_SPACER THEN SPACER_HTML
  ELSE IF ToLower(style) = STYLE_NONE THEN <<>>
  ELSE HR_HTML

isSceneBreakHTML(s) == s = HR_HTML \/ s = SPACER_HTML

\* the length of the match of splitOnSceneBreak's pattern at the head of s,
\* 0 when it does not match there
markerLen(s) ==
  LET r == SkipReSpace(Drop(s, Len(HR_PREFIX)))
  IN IF HasPrefix(s, HR_PREFIX) /\ HasPrefix(r, <<"/", ">">>)
     THEN Len(s) - Len(r) + 2
     ELSE IF HasPrefix(s, SPACER_HTML) THEN Len(SPACER_HTML)
     ELSE 0

\* splitOnSceneBreak: the non-empty texts and the markers, in order
RECURSIVE splitFrom(_, _)
splitFrom(s, cur) ==
  IF s = <<>> THEN (IF cur # <<>> THEN <<cur>> ELSE <<>>)
  ELSE LET m == markerLen(s)
       IN IF m > 0
          THEN (IF cur # <<>> THEN <<cur>> ELSE <<>>)
               \o <<SubSeq(s, 1, m)>> \o splitFrom(Drop(s, m), <<>>)
          ELSE splitFrom(Tail(s), Append(cur, Head(s)))

\* a split that leaves the body whole
splitOnSceneBreakWhole(inner) == IF inner = <<>> THEN <<>> ELSE <<inner>>

splitOnSceneBreak(inner) == splitFrom(inner, <<>>)

\* the length of a match of <br\s*/?>\s* (case-insensitive) at the head of
\* s, 0 when there is none
brUnitLen(s) ==
  IF Len(s) >= 3 /\ s[1] = "<" /\ ToLowerChar(s[2]) = "b" /\ ToLowerChar(s[3]) = "r"
  THEN LET r1 == SkipReSpace(Drop(s, 3))
           r2 == IF HasPrefix(r1, <<"/">>) THEN Tail(r1) ELSE r1
       IN IF HasPrefix(r2, <<">">>) THEN Len(s) - Len(SkipReSpace(Tail(r2))) ELSE 0
  ELSE 0

\* the maximal run of such matches at the head of s: <<matches, length>>
RECURSIVE brRun(_)
brRun(s) ==
  LET u == brUnitLen(s)
  IN IF u = 0 THEN <<0, 0>>
     ELSE LET r == brRun(Drop(s, u)) IN <<r[1] + 1, r[2] + u>>

\* ReplaceAllString of (?:<br\s*/?>\s*){n,} by sb
RECURSIVE replaceRuns(_, _, _)
replaceRuns(s, n, sb) ==
  IF s = <<>> THEN <<>>
  ELSE LET r == brRun(s)
       IN IF r[1] >= n THEN sb \o replaceRuns(Drop(s, r[2]), n, sb)
          ELSE <<Head(s)>> \o replaceRuns(Tail(s), n, sb)

\* a collapsing that needs one line break more than the threshold
replaceBRRunsOffByOne(in, n, style) ==
  IF n <= 1 \/ ToLower(style) = STYLE_NONE THEN in
  ELSE replaceRuns(in, n + 1, emitSceneBreak(style))

replaceBRRuns(in, n, style) ==
  IF n <= 1 \/ ToLower(style) = STYLE_NONE THEN in
  ELSE replaceRuns(in, n, emitSceneBreak(style))

\* inlineHTML: the whitelisted inline markup of the subtree of n
RECURSIVE inlineHTML(_)
inlineHTML(nn) ==
  LET kids == Concat([i \in 1..Len(nn.kids) |-> inlineHTML(nn.kids[i])])
  IN IF nn.kind = "text" THEN EscapeString(nn.data)
     ELSE IF nn.kind = "elem"
     THEN IF nn.name \in {"em", "i"} THEN I_OPEN \o kids \o I_CLOSE
          ELSE IF nn.name \in {"strong", "b"} THEN B_OPEN \o kids \o B_CLOSE
          ELSE IF nn.name = "u" THEN U_OPEN \o kids \o U_CLOSE
          ELSE IF nn.name = "br" THEN BR_HTML
          ELSE IF nn.name = "a"
               THEN A_OPEN \o EscapeString(Attr(nn, "href").val) \o A_OPEN_END
                    \o kids \o A_CLOSE
          ELSE kids
     ELSE kids

\* stripTags: ReplaceAllString of <[^>]+> by ""
RECURSIVE stripTags(_)
stripTags(s) ==
  IF s = <<>> THEN <<>>
  ELSE IF Head(s) = "<" /\ IndexOf(Tail(s), <<">">>) >= 2
       THEN stripTags(Drop(s, IndexOf(Tail(s), <<">">>) + 1))
  ELSE <<Head(s)>> \o stripTags(Tail(s))

\* "<tag>t</tag>"
wrapBlock(tag, t) == <<"<">> \o tag \o <<">">> \o t \o <<"<", "/">> \o tag \o <<">">>

\* the loop of push over the parts of a block's body
RECURSIVE pushParts(_, _, _)
pushParts(tag, parts, buf) ==
  LET t == TrimSpace(buf)
      flush == IF t # <<>> THEN <<wrapBlock(tag, t)>> ELSE <<>>
  IN IF parts = <<>> THEN flush
     ELSE IF Head(parts) = HR_HTML \/ Head(parts) = SPACER_HTML
          THEN flush \o <<Head(parts)>> \o pushParts(tag, Tail(parts), <<>>)
     ELSE pushParts(tag, Tail(parts), buf \o Head(parts))

\* push: the blocks one p, li or blockquote element appends
push(tag, el, cfg) ==
  LET raw == TrimSpace(nodeText(el))
      sb == emitSceneBreak(cfg.SceneBreakStyle)
      inner == replaceBRRuns(inlineHTML(el), cfg.ConsecutiveBRThreshold, cfg.SceneBreakStyle)
  IN IF isSceneBreakText(raw, cfg.SceneBreakPatterns)
     THEN (IF sb # <<>> THEN <<sb>> ELSE <<>>)
     ELSE pushParts(tag, splitOnSceneBreak(inner), <<>>)

\* the blocks one descendant of the content root appends
blocksOf(n, cfg) ==
  IF n.kind # "elem" THEN <<>>
  ELSE IF n.name \in {"p", "li"} THEN push(P_TAG, n, cfg)
  ELSE IF n.name = "blockquote" THEN push(BLOCKQUOTE_TAG, n, cfg)
  ELSE IF n.name = "hr"
       THEN (IF emitSceneBreak(cfg.SceneBreakStyle) # <<>>
             THEN <<emitSceneBreak(cfg.SceneBreakStyle)>> ELSE <<>>)
  ELSE <<>>

\* a final loop that keeps every block
dedupeKeepingAll(blocks, out) == out \o blocks

\* the final loop of paragraphsWithInline: adjacent markers de-duplicated
RECURSIVE dedupe(_, _)
dedupe(blocks, out) ==
  IF blocks = <<>> THEN out
  ELSE IF out # <<>> /\ isSceneBreakHTML(Head(blocks)) /\ isSceneBreakHTML(out[Len(out)])
       THEN dedupe(Tail(blocks), out)
  ELSE dedupe(Tail(blocks), Append(out, Head(blocks)))

paragraphsWithInline(root, cfg) ==
  LET ns == walk(root)
  IN dedupe(Concat([i \in 1..Len(ns) |-> blocksOf(ns[i], cfg)]), <<>>)

\* the longest run of digits of s from index i on
RECURSIVE DigitRun(_, _)
DigitRun(s, i) == IF i <= Len(s) /\ IsDigit(s[i]) THEN 1 + DigitRun(s, i + 1) ELSE 0

\* the longest run of white space of s from index i on
RECURSIVE SpaceRun(_, _)
SpaceRun(s, i) == IF i <= Len(s) /\ IsReSpace(s[i]) THEN 1 + SpaceRun(s, i + 1) ELSE 0

\* \w of the regular expressions
IsWordChar(c) == IsLetter(c) \/ IsDigit(c) \/ c = "_"

\* a pattern without its \b: every position passes
WordBoundaryAnywhere(s, i) == TRUE

\* \b between s[i] and s[i+1], for i in 0..Len(s)
WordBoundary(s, i) ==
  (i >= 1 /\ IsWordChar(s[i])) # (i < Len(s) /\ IsWordChar(s[i + 1]))

\* chCodeRe = \b(\d+\.\d+\s*[A-Z]?)\b matched at index i: the index of the
\* last character of the match the engine prefers (longest digits, then
\* longest white space, then the capital letter), 0 when there is none
chCodeEnd(s, i) ==
  LET d1 == DigitRun(s, i)
      dot == i + d1
      d2max == DigitRun(s, dot + 1)
      ends == {<<d2, ws, cap>> \in (1..d2max) \X (0..Len(s)) \X {0, 1} :
                 /\ ws <= SpaceRun(s, dot + d2 + 1)
                 /\ cap = 1 => (dot + d2 + ws + 1 <= Len(s) /\ IsUpper(s[dot + d2 + ws + 1]))
                 /\ WordBoundary(s, dot + d2 + ws + cap)}
      Better(a, b) == \/ a[1] > b[1]
                      \/ a[1] = b[1] /\ a[2] > b[2]
                      \/ a[1] = b[1] /\ a[2] = b[2] /\ a[3] >= b[3]
      best == CHOOSE a \in ends : \A b \in ends : Better(a, b)
  IN IF WordBoundary(s, i - 1) /\ d1 >= 1 /\ dot <= Len(s) /\ s[dot] = "." /\ ends # {}
     THEN dot + best[1] + best[2] + best[3]
     ELSE 0

\* chCodeRe.FindStringSubmatch: the leftmost match, <<>> when none
chCodeFind(s) ==
  LET starts == {i \in 1..Len(s) : chCodeEnd(s, i) # 0}
      i0 == CHOOSE i \in starts : \A j \in starts : i <= j
  IN IF starts = {} THEN <<>> ELSE SubSeq(s, i0, chCodeEnd(s, i0))

\* reSpace: every run of white space becomes one space
RECURSIVE reSpace(_)
reSpace(s) ==
  IF s = <<>> THEN <<>>
  ELSE IF IsReSpace(Head(s)) THEN <<" ">> \o reSpace(Drop(s, SpaceRun(s, 1)))
  ELSE <<Head(s)>> \o reSpace(Tail(s))

\* cascadia's matchAttribute: some attribute of the element has the key and
\* a value that passes the test
AttrValues(n, key) == {n.attrs[j][2] : j \in {k \in 1..Len(n.attrs) : n.attrs[k][1] = key}}

\* meta[property="og:title"]
IsOgTitle(n) ==
  n.kind = "elem" /\ n.name = "meta" /\ OG_TITLE \in AttrValues(n, "property")

\* a title that prefers the og:title meta element to the first h1
titleAndCodeMetaFirst(doc) ==
  LET h1 == First(Find(doc, <<>>, <<<<Tag("h1")>>>>))
      ps == DescPaths(doc, <<>>)
      m == First(Concat([i \in 1..Len(ps) |->
                   IF IsOgTitle(NodeAt(doc, ps[i])) THEN <<ps[i]>> ELSE <<>>]))
      c == IF m = <<>> THEN [ok |-> FALSE, val |-> <<>>] ELSE Attr(NodeAt(doc, m[1]), "content")
      t1 == IF c.ok THEN TrimSpace(c.val) ELSE <<>>
      t2 == IF t1 = <<>> /\ h1 # <<>> THEN TrimSpace(TextOf(NodeAt(doc, h1[1]))) ELSE t1
      t == IF t2 = <<>> THEN UNTITLED ELSE t2
  IN <<t, t>>

\* titleAndCode: <<title, code>>
titleAndCode(doc) ==
  LET h1 == First(Find(doc, <<>>, <<<<Tag("h1")>>>>))
      t1 == IF h1 = <<>> THEN <<>> ELSE TrimSpace(TextOf(NodeAt(doc, h1[1])))
      ps == DescPaths(doc, <<>>)
      m == First(Concat([i \in 1..Len(ps) |->
                   IF IsOgTitle(NodeAt(doc, ps[i])) THEN <<ps[i]>> ELSE <<>>]))
      c == IF m = <<>> THEN [ok |-> FALSE, val |-> <<>>] ELSE Attr(NodeAt(doc, m[1]), "content")
      t2 == IF t1 = <<>> /\ c.ok THEN TrimSpace(c.val) ELSE t1
      t == IF t2 = <<>> THEN UNTITLED ELSE t2
      found == chCodeFind(t)
  IN <<t, IF found # <<>> THEN TrimSpace(reSpace(found)) ELSE t>>

\* the absent *string and a present one
NoNext == [ok |-> FALSE, val |-> <<>>]
SomeNext(u) == [ok |-> TRUE, val |-> u]

\* link[rel*="next"]
IsNextLink(n) ==
  /\ n.kind = "elem"
  /\ n.name = "link"
  /\ \E v \in AttrValues(n, "rel") : Contains(v, NEXT_LOWER)

\* whether the element has a non-empty href
HasHref(n) == Attr(n, "href").ok /\ Attr(n, "href").val # <<>>

\* nextURL, step 1: the href of the first link[rel*="next"], when it has one
nextFromLink(doc) ==
  LET ps == DescPaths(doc, <<>>)
      l == First(Concat([i \in 1..Len(ps) |->
                   IF IsNextLink(NodeAt(doc, ps[i])) THEN <<ps[i]>> ELSE <<>>]))
  IN IF l # <<>> /\ HasHref(NodeAt(doc, l[1]))
     THEN SomeNext(Attr(NodeAt(doc, l[1]), "href").val)
     ELSE NoNext

\* nextURL, step 2: the href of the first anchor, in document order, whose
\* trimmed text is one of NextTexts and that has a non-empty href
nextFromExact(doc, cfg) ==
  LET as == Find(doc, <<>>, <<<<Tag("a")>>>>)
      IsExact(q) == /\ \E k \in 1..Len(cfg.NextTexts) :
                         TrimSpace(TextOf(NodeAt(doc, q))) = cfg.NextTexts[k]
                    /\ HasHref(NodeAt(doc, q))
      exact == First(Concat([i \in 1..Len(as) |->
                       IF IsExact(as[i]) THEN <<as[i]>> ELSE <<>>]))
  IN IF exact # <<>> THEN SomeNext(Attr(NodeAt(doc, exact[1]), "href").val)
     ELSE NoNext

\* nextURL, step 3: the href of the first anchor whose trimmed text matches
\* (?i)Next, when it has one
nextFromFuzzy(doc) ==
  LET as == Find(doc, <<>>, <<<<Tag("a")>>>>)
      IsFuzzy(q) == Contains(ToLower(TrimSpace(TextOf(NodeAt(doc, q)))), NEXT_LOWER)
      fuzzy == First(Concat([i \in 1..Len(as) |->
                       IF IsFuzzy(as[i]) THEN <<as[i]>> ELSE <<>>]))
  IN IF fuzzy # <<>> /\ HasHref(NodeAt(doc, fuzzy[1]))
     THEN SomeNext(Attr(NodeAt(doc, fuzzy[1]), "href").val)
     ELSE NoNext

\* nextURL with the anchors consulted before the link element
nextURLAnchorsFirst(doc, cfg) ==
  IF nextFromExact(doc, cfg).ok THEN nextFromExact(doc, cfg)
  ELSE IF nextFromFuzzy(doc).ok THEN nextFromFuzzy(doc)
  ELSE nextFromLink(doc)

\* nextURL
nextURL(doc, cfg) ==
  IF nextFromLink(doc).ok THEN nextFromLink(doc)
  ELSE IF nextFromExact(doc, cfg).ok THEN nextFromExact(doc, cfg)
  ELSE nextFromFuzzy(doc)

NoChapter == [Title |-> <<>>, Code |-> <<>>, URL |-> <<>>, HTML |-> <<>>]

\* the document after ParseChapter's stripNoise(findContent(doc))
strippedDoc(doc, cfg) ==
  LET content == findContent(doc, cfg.SelectorCandidates)
  IN IF content = <<>> THEN doc ELSE stripNoise(doc, content[1])

\* the body ParseChapter rebuilds: the blocks of the stripped content node,
\* joined by "\n"
bodyHTMLOf(doc, cfg) ==
  LET content == findContent(doc, cfg.SelectorCandidates)
  IN IF content = <<>> THEN <<>>
     ELSE Join(paragraphsWithInline(
                 stripNoiseFrom(NodeAt(doc, content[1]), NoiseSelectors), cfg), NEWLINE)

\* strings.TrimSpace(plain)
plainText(bodyHTML) == TrimSpace(stripTags(bodyHTML))

\* len(strings.TrimSpace(plain)): a byte count
plainLen(bodyHTML) == ByteLen(plainText(bodyHTML))

\* ParseChapter: [err, ch, next]; err is "" for nil
ParseChapter(doc, pageURL, cfg) ==
  LET tc == titleAndCode(doc)
      bodyHTML == bodyHTMLOf(doc, cfg)
  IN IF plainLen(bodyHTML) < cfg.MinTextLen
     THEN [err |-> "chapter too short", ch |-> NoChapter, next |-> NoNext]
     ELSE [err |-> "",
           ch |-> [Title |-> tc[1], Code |-> tc[2], URL |-> pageURL, HTML |-> bodyHTML],
           next |-> nextURL(strippedDoc(doc, cfg), cfg)]

\* ------------------------------------------------------------------------
\* the state
\* ------------------------------------------------------------------------
VARIABLES
  site,        \* the documents the server may answer with
  configured,  \* Options.MaxPages as handed to NewRunner
  opt,         \* Runner.opt: [MaxPages, SaveEach]
  cfg,         \* Runner.cfg: the ParserConfig of the Runner when Run is called
  parseOut,    \* ParseChapter's return values while it sleeps before it returns
  store,       \* Runner.store # nil
  startURL,    \* Run's argument
  ctxDone,     \* the context has been cancelled
  pc,          \* where Run stands
  current,     \* Run's current
  i,           \* Run's loop counter
  all,         \* Run's all
  resp,        \* the response Get returned
  bodyOpen,    \* a response body is open
  doc,         \* the parsed document
  ch,          \* the chapter ParseChapter returned
  next,        \* the next href ParseChapter returned
  result,      \* what Run returned: [chapters, err]
  requests,    \* history: the URLs of the HTTP requests issued, in order
  getCalls,    \* history: the number of calls of Client.Get
  outcomes,    \* history: the status of each request's answer, 0 for none
  parsed,      \* history: the chapters ParseChapter produced, in order
  hrefs,       \* history: the next href of each page Run advanced from
  saves,       \* history: the calls of Saver.Save, [ch, ok], in order
  stop,        \* history: why Run returned
  disk,        \* the store's directory: the files of each chapter directory
  arg,         \* the input of a function under test
  ret          \* its result

runVars == <<site, configured, opt, cfg, parseOut, store, startURL, ctxDone, pc, current, i, all,
             resp, bodyOpen, doc, ch, next, result>>
histVars == <<requests, getCalls, outcomes, parsed, hrefs, saves, stop>>
vars == <<runVars, histVars, disk, arg, ret>>

\* ------------------------------------------------------------------------
\* the site: the pages a server may answer with
\* ------------------------------------------------------------------------
S(a, b, c, d) == <<a, b, c, d>>

HtmlDoc(head, body) == DocNode(<<El("html", <<El("head", head), El("body", body)>>)>>)

\* no document
NoDoc == DocNode(<<>>)

LinkNext(href) == ElA("link", <<<<"rel", NEXT_LOWER>>, <<"href", href>>>>, <<>>)

Anchor(text, href) == ElA("a", <<<<"href", href>>>>, <<Txt(text)>>)

\* MinTextLen of DefaultParserConfig
DefaultMinTextLen == 50

\* PoliteDelaySec of DefaultParserConfig
DefaultPoliteDelaySec == 1

\* the text s followed by the fewest em dashes, of three bytes each, that
\* bring it to n bytes or more
Padded(s, n) == s \o [k \in 1..((n - ByteLen(s) + 2) \div 3) |-> "U+2014"]

\* a paragraph whose text has the bytes DefaultParserConfig asks for
Para(s) == El("p", <<Txt(Padded(s, DefaultMinTextLen))>>)

\* a page with a title and a relative rel=next link
PageRel ==
  HtmlDoc(<<LinkNext(<<"c", "2">>)>>,
          <<El("h1", <<Txt(<<"1", ".", "1">>)>>), Para(S("a", "b", "c", "d"))>>)

\* a page whose "Next" anchor carries an absolute href with white space
\* around it and an upper-case scheme
PageAbs ==
  HtmlDoc(<<>>, <<Para(S("e", "f", "g", "h")),
                  Anchor(NEXT_TEXT, <<" ", "H", ":", "/", "/", "s", "/", "x", " ">>)>>)

\* the last page of a work: no next link
PageLast == HtmlDoc(<<>>, <<Para(S("t", "h", "e", "."))>>)

\* a page whose text is one byte short of DefaultMinTextLen: a letter and
\* sixteen dashes
PageShort ==
  HtmlDoc(<<>>, <<El("p", <<Txt(Padded(<<"a">>, DefaultMinTextLen - 1))>>)>>)

\* a page whose text has half of DefaultMinTextLen characters, of two bytes
\* each
PageAccents ==
  HtmlDoc(<<>>, <<El("p", <<Txt([k \in 1..(DefaultMinTextLen \div 2) |-> "U+00E9"])>>)>>)

\* a page whose next href is white space
PageBlank == HtmlDoc(<<LinkNext(<<" ">>)>>, <<Para(S("i", "j", "k", "l"))>>)

\* a page whose next href does not parse as a URL
PageBadHref == HtmlDoc(<<LinkNext(<<"1", ":", "x">>)>>, <<Para(S("m", "n", "o", "p"))>>)

Pages == {PageRel, PageAbs, PageLast, PageShort, PageAccents, PageBlank, PageBadHref}

\* a page whose rel=next link carries the href
LinkPage(href) == HtmlDoc(<<LinkNext(href)>>, <<Para(S("q", "r", "s", "t"))>>)

\* the status codes a server may answer with
Statuses == {200, 399, 400, 500}

\* the start URLs
START_URL == <<"h", ":", "/", "/", "s", "/", "b", "/", "c", "1">>

StartURLs == {START_URL, <<>>}

\* https://site.example/b/ch1
EXAMPLE_BASE ==
  <<"h", "t", "t", "p", "s", ":", "/", "/", "s", "i", "t", "e", ".",
    "e", "x", "a", "m", "p", "l", "e", "/", "b", "/", "c", "h", "1">>

\* the hrefs a page may carry: a head followed by at most MaxHrefLen
\* characters, and the hrefs of the documented scenarios
HrefAlphabet == {"a", "/", ".", ":", " "}

HrefTails == UNION {[1..n -> HrefAlphabet] : n \in 0..MaxHrefLen}

HrefHeads ==
  {<<>>, <<"h", ":", "/", "/", "s">>, <<"H", ":", "/", "/", "s", "/">>,
   <<" ", "h", ":", "/", "/", "s", "/", "b">>, <<"/", "/", "t">>, <<"h", ":">>}

HrefExamples ==
  {<<"c", "h", "2">>, <<"/", "o", "t", "h", "e", "r", "/", "c", "h", "2">>,
   <<".", ".", "/", "x">>, <<"h", ":", "/", "/", "s", "/", "a", "/", ".", ".", "/", "b">>}

Hrefs == {h \o t : h \in HrefHeads, t \in HrefTails} \cup HrefExamples

\* ------------------------------------------------------------------------
\* package model
\* ------------------------------------------------------------------------
\* a ParserConfig: DefaultParserConfig's selectors, texts, patterns and
\* delay, with a MinTextLen, a scene-break style and a line-break threshold
ParserConfig(minTextLen, style, threshold) ==
  [SelectorCandidates |-> <<<<Tag("article"), Class("entry-content")>>, <<Class("entry-content")>>,
                            <<Class("post-content")>>, <<Tag("article")>>,
                            <<Class("chapter-content")>>>>,
   NextTexts |-> <<NEXT_TEXT, NEXT_CHAPTER, NEXT_PAGE, <<">", ">">>,
                   <<"U+00C2", "U+00BB">>, <<"U+00E2", "U+2020", "U+2019">>>>,
   MinTextLen |-> minTextLen,
   PoliteDelaySec |-> DefaultPoliteDelaySec,
   SceneBreakPatterns |-> <<"^[-_*]{3,}$", "^\\* *\\* *\\* *$",
                            "^U+00E2U+20ACU+201D+$", "^U+00E2U+20ACU+00A0$">>,
   SceneBreakStyle |-> style,
   ConsecutiveBRThreshold |-> threshold]

\* DefaultParserConfig: Runner.cfg as NewRunner sets it
DefaultParserConfig == ParserConfig(DefaultMinTextLen, STYLE_HR, BRThreshold)

\* a configuration for short pages and no delay, as a caller may set it
\* with Runner.WithParserConfig between NewRunner and Run
FixtureParserConfig == [DefaultParserConfig EXCEPT !.MinTextLen = 0, !.PoliteDelaySec = 0]

\* Runner.cfg when Run is called; Run never changes it
RunnerConfigs == {DefaultParserConfig, FixtureParserConfig}

\* ------------------------------------------------------------------------
\* package util and package storage: the slug of a chapter and FS.Save
\* ------------------------------------------------------------------------
\* what Slugify's loop sees of one character after strings.ToLower and NFD
\* decomposition without the combining marks: a letter a-z or a digit, or
\* "-" for any other character
slugChar(c) ==
  IF IsLower(c) \/ IsDigit(c) THEN c
  ELSE IF IsUpper(c) THEN ToLowerChar(c)
  ELSE IF c = "U+00E9" THEN "e"
  ELSE IF c \in {"U+00E2", "U+00C2"} THEN "a"
  ELSE "-"

\* Slugify's loop: every run of other characters becomes one hyphen
RECURSIVE slugFrom(_, _)
slugFrom(s, prevHyphen) ==
  IF s = <<>> THEN <<>>
  ELSE IF slugChar(Head(s)) # "-" THEN <<slugChar(Head(s))>> \o slugFrom(Tail(s), FALSE)
  ELSE IF prevHyphen THEN slugFrom(Tail(s), TRUE)
  ELSE <<"-">> \o slugFrom(Tail(s), TRUE)

\* strings.Trim(s, "-")
RECURSIVE TrimHyphens(_)
TrimHyphens(s) ==
  IF s # <<>> /\ Head(s) = "-" THEN TrimHyphens(Tail(s))
  ELSE IF s # <<>> /\ s[Len(s)] = "-" THEN TrimHyphens(SubSeq(s, 1, Len(s) - 1))
  ELSE s

\* Slugify: at most 64 bytes of the trimmed slug
Slugify(s) ==
  LET slug == TrimHyphens(slugFrom(TrimSpace(s), FALSE))
  IN IF Len(slug) > 64 THEN SubSeq(slug, 1, 64) ELSE slug

\* ChapterSlug: from the Code, else from the Title, else "chapter"
ChapterSlug(c) ==
  LET byCode == Slugify(TrimSpace(c.Code))
      byTitle == Slugify(c.Title)
  IN IF byCode # <<>> THEN byCode
     ELSE IF byTitle # <<>> THEN byTitle
     ELSE <<"c", "h", "a", "p", "t", "e", "r">>

\* a store without a chapter directory
EmptyDisk == [d \in {} |-> <<>>]

\* a file that does not exist
NoFile == [exists |-> FALSE, data |-> <<>>]

\* how a call of FS.Save ends: well ("ok"), or with the error of MkdirAll
\* ("mkdir"), of the WriteFile of index.html ("html") or of the WriteFile of
\* meta.json ("meta"). A WriteFile that fails either could not open its file
\* (opened FALSE), which stays as it was, or opened it, which creates and
\* truncates it, and left the first `written` units of its data in it
SaveOutcome(exit, opened, written) == [exit |-> exit, opened |-> opened, written |-> written]

SaveOk == SaveOutcome("ok", TRUE, 0)

\* the file after os.WriteFile(path, data): what a failing call leaves
\* behind depends on where it failed
WriteFile(old, data, failed, o) ==
  IF ~failed THEN [exists |-> TRUE, data |-> data]
  ELSE IF ~o.opened THEN old
  ELSE [exists |-> TRUE,
        data |-> SubSeq(data, 1, IF o.written < Len(data) THEN o.written ELSE Len(data))]

\* the object json.MarshalIndent writes to meta.json, as the values of its
\* keys in the order of the file: code, html, title, url
MetaOf(c, slug) ==
  <<c.Code,
    <<"c", "h", "a", "p", "t", "e", "r", "s", "/">> \o slug
      \o <<"/", "i", "n", "d", "e", "x", ".", "h", "t", "m", "l">>,
    c.Title, c.URL>>

\* FS.Save on the store d: the directory chapters/<slug> with index.html
\* and meta.json
FSSave(d, c, o) ==
  LET slug == ChapterSlug(c)
      old == IF slug \in DOMAIN d THEN d[slug] ELSE [index |-> NoFile, meta |-> NoFile]
      index == WriteFile(old.index, c.HTML, o.exit = "html", o)
      meta == WriteFile(old.meta, MetaOf(c, slug), o.exit = "meta", o)
      files == IF o.exit = "html" THEN [old EXCEPT !.index = index]
               ELSE [index |-> index, meta |-> meta]
  IN IF o.exit = "mkdir" THEN d
     ELSE [x \in DOMAIN d \cup {slug} |-> IF x = slug THEN files ELSE d[x]]

\* the ways a call of FS.Save on the chapter c may end: a write that fails
\* may stop after any part of its data, or fail with all of it written (the
\* error came with the Close)
SaveOutcomes(c) ==
  {SaveOk, SaveOutcome("mkdir", FALSE, 0), SaveOutcome("html", FALSE, 0),
   SaveOutcome("meta", FALSE, 0)}
  \cup {SaveOutcome("html", TRUE, k) : k \in 0..Len(c.HTML)}
  \cup {SaveOutcome("meta", TRUE, k) : k \in 0..Len(MetaOf(c, ChapterSlug(c)))}

\* ------------------------------------------------------------------------
\* package fetch and package app: Client.Get and Runner.Run, step by step
\* ------------------------------------------------------------------------
NoResp == [status |-> 0, body |-> NoDoc, readable |-> FALSE]
NoResult == [chapters |-> <<>>, err |-> ""]

\* ParseChapter is not about to return anything
NoParse == [ch |-> NoChapter, next |-> NoNext]

\* a constructor that keeps the page budget it is given
NewRunnerKeepingMaxPages(maxPages) == maxPages

\* NewRunner: a MaxPages below 1 becomes 1
NewRunnerMaxPages(maxPages) == IF maxPages < 1 THEN 1 ELSE maxPages

\* a failure that returns the chapters collected so far
FailResultPartial(why) == [chapters |-> all, err |-> why]

\* return RunResult{}, fmt.Errorf(...)
FailResult(why) == [chapters |-> <<>>, err |-> why]

\* a return of the chapters collected before the current page
OkResultStale(chapters) == [chapters |-> all, err |-> ""]

\* return RunResult{Chapters: all}, nil
OkResult(chapters) == [chapters |-> chapters, err |-> ""]

\* a loop that allows twice the page budget
LoopCondTwiceTheBudget == i < 2 * opt.MaxPages /\ current # <<>>

\* a loop condition that is off by one
LoopCondInclusive == i <= opt.MaxPages /\ current # <<>>

\* the condition of Run's for loop
LoopCond == i < opt.MaxPages /\ current # <<>>

\* a status test that lets the client errors through
IsServerError(status) == status >= 500

\* Client.Get: resp.StatusCode >= 400
IsErrorStatus(status) == status >= 400

\* a persistence test that ignores SaveEach
ShouldSaveIgnoringFlag == store

\* Run: r.opt.SaveEach && r.store != nil
ShouldSave == opt.SaveEach /\ store

\* an append that keeps only the current chapter
AppendChapterOverwriting(chapters, c) == <<c>>

\* all = append(all, ch)
AppendChapter(chapters, c) == Append(chapters, c)

\* Run returns an error
Fail(why) ==
  /\ pc' = "done"
  /\ result' = FailResult(why)
  /\ stop' = why

\* an error return that first clears the store
AbortRollingBack(why) == Fail(why) /\ disk' = EmptyDisk

\* Run returns an error from a step that does not touch the store
Abort(why) == Fail(why) /\ disk' = disk

\* no function is under test
Idle == arg = <<>> /\ ret = <<>>

\* Run's variables and the histories before Run has done anything
RunFresh ==
  /\ ctxDone = FALSE
  /\ current = startURL
  /\ i = 0
  /\ all = <<>>
  /\ resp = NoResp
  /\ bodyOpen = FALSE
  /\ doc = NoDoc
  /\ ch = NoChapter
  /\ next = NoNext
  /\ parseOut = NoParse
  /\ result = NoResult
  /\ requests = <<>>
  /\ getCalls = 0
  /\ outcomes = <<>>
  /\ parsed = <<>>
  /\ hrefs = <<>>
  /\ saves = <<>>
  /\ stop = ""
  /\ disk = EmptyDisk

\* Run is entered
RunEntry == pc = "loop" /\ RunFresh

Init ==
  /\ site = Pages
  /\ cfg \in RunnerConfigs
  /\ configured \in -1..MaxPagesBound
  /\ opt \in [MaxPages : {NewRunnerMaxPages(configured)}, SaveEach : BOOLEAN]
  /\ store \in BOOLEAN
  /\ startURL \in StartURLs
  /\ RunEntry
  /\ Idle

\* the loop condition: enter the body, whose variables are fresh, or leave
\* the loop and return all
LoopTest ==
  /\ pc = "loop"
  /\ IF LoopCond
     THEN /\ pc' = "wait"
          /\ getCalls' = getCalls + 1
          /\ resp' = NoResp
          /\ doc' = NoDoc
          /\ ch' = NoChapter
          /\ next' = NoNext
          /\ UNCHANGED <<result, stop>>
     ELSE /\ pc' = "done"
          /\ result' = OkResult(all)
          /\ stop' = IF current = <<>> THEN "nourl" ELSE "budget"
          /\ UNCHANGED <<getCalls, resp, doc, ch, next>>
  /\ UNCHANGED <<site, configured, opt, cfg, parseOut, store, startURL, ctxDone, current, i, all,
                 bodyOpen, requests, outcomes, parsed, hrefs, saves, disk, arg, ret>>

\* a limiter wait that does not look at the context
LimWaitIgnoringContext ==
  /\ pc = "wait"
  /\ pc' = "do"
  /\ UNCHANGED <<site, configured, opt, cfg, parseOut, store, startURL, ctxDone, current, i, all,
                 resp, bodyOpen, doc, ch, next, result, stop,
                 requests, getCalls, outcomes, parsed, hrefs, saves, disk, arg, ret>>

\* Client.Get: c.lim.Wait(ctx) fails once the context is cancelled
LimWait ==
  /\ pc = "wait"
  /\ IF ctxDone THEN Abort("get") ELSE pc' = "do" /\ UNCHANGED <<result, stop, disk>>
  /\ UNCHANGED <<site, configured, opt, cfg, parseOut, store, startURL, ctxDone, current, i, all,
                 resp, bodyOpen, doc, ch, next,
                 requests, getCalls, outcomes, parsed, hrefs, saves, arg, ret>>

\* Client.Get: c.http.Do(req) refuses a cancelled context, else sends the
\* request
HttpSend ==
  /\ pc = "do"
  /\ IF ctxDone
     THEN Abort("get") /\ UNCHANGED requests
     ELSE /\ pc' = "await"
          /\ requests' = Append(requests, current)
          /\ UNCHANGED <<result, stop, disk>>
  /\ UNCHANGED <<site, configured, opt, cfg, parseOut, store, startURL, ctxDone, current, i, all,
                 resp, bodyOpen, doc, ch, next,
                 getCalls, outcomes, parsed, hrefs, saves, arg, ret>>

\* Client.Get: the request fails (the network, the timeout, a cancellation)
HttpError ==
  /\ pc = "await"
  /\ outcomes' = Append(outcomes, 0)
  /\ Abort("get")
  /\ UNCHANGED <<site, configured, opt, cfg, parseOut, store, startURL, ctxDone, current, i, all,
                 resp, bodyOpen, doc, ch, next,
                 requests, getCalls, parsed, hrefs, saves, arg, ret>>

\* Client.Get: a response arrives; 400 and above close the body and fail
HttpResponse ==
  /\ pc = "await"
  /\ \E status \in Statuses, body \in site, readable \in BOOLEAN :
       /\ outcomes' = Append(outcomes, status)
       /\ IF IsErrorStatus(status)
          THEN /\ Abort("get")
               /\ UNCHANGED <<resp, bodyOpen>>
          ELSE /\ resp' = [status |-> status, body |-> body, readable |-> readable]
               /\ bodyOpen' = TRUE
               /\ pc' = "read"
               /\ UNCHANGED <<result, stop, disk>>
  /\ UNCHANGED <<site, configured, opt, cfg, parseOut, store, startURL, ctxDone, current, i, all,
                 doc, ch, next,
                 requests, getCalls, parsed, hrefs, saves, arg, ret>>

\* a ReadBody that requests the page again when its HTML cannot be read
ReadBodyRefetch ==
  /\ pc = "read"
  /\ bodyOpen' = FALSE
  /\ IF resp.readable
     THEN doc' = resp.body /\ pc' = "parse"
     ELSE pc' = "do" /\ UNCHANGED doc
  /\ UNCHANGED <<site, configured, opt, cfg, parseOut, store, startURL, ctxDone, current, i, all,
                 resp, ch, next, result, stop,
                 requests, getCalls, outcomes, parsed, hrefs, saves, disk, arg, ret>>

\* goquery.NewDocumentFromReader(resp.Body); resp.Body.Close()
ReadBody ==
  /\ pc = "read"
  /\ bodyOpen' = FALSE
  /\ IF resp.readable
     THEN /\ doc' = resp.body
          /\ pc' = "parse"
          /\ UNCHANGED <<result, stop, disk>>
     ELSE Abort("parse html") /\ UNCHANGED doc
  /\ UNCHANGED <<site, configured, opt, cfg, parseOut, store, startURL, ctxDone, current, i, all,
                 resp, ch, next,
                 requests, getCalls, outcomes, parsed, hrefs, saves, arg, ret>>

\* the return of parse.ParseChapter with a chapter: Run's ch and next are
\* assigned, and Run goes on to the Save or to the append
ParseReturn(r) ==
  /\ ch' = r.ch
  /\ next' = r.next
  /\ parsed' = Append(parsed, r.ch)
  /\ pc' = IF ShouldSave THEN "save" ELSE "append"
  /\ UNCHANGED <<result, stop, disk>>

\* parse.ParseChapter(doc, current, r.cfg) up to its time.Sleep: stripNoise
\* has changed the document in place; a short page returns the error at
\* once, another page returns at once only when PoliteDelaySec is 0
Parse ==
  /\ pc = "parse"
  /\ doc' = strippedDoc(doc, cfg)
  /\ LET r == ParseChapter(doc, current, cfg)
     IN IF r.err # ""
        THEN Abort("parse chapter") /\ UNCHANGED <<ch, next, parsed, parseOut>>
        ELSE IF cfg.PoliteDelaySec > 0
        THEN /\ parseOut' = [ch |-> r.ch, next |-> r.next]
             /\ pc' = "sleep"
             /\ UNCHANGED <<ch, next, parsed, result, stop, disk>>
        ELSE ParseReturn(r) /\ UNCHANGED parseOut
  /\ UNCHANGED <<site, configured, opt, cfg, store, startURL, ctxDone, current, i, all,
                 resp, bodyOpen,
                 requests, getCalls, outcomes, hrefs, saves, arg, ret>>

\* ParseChapter's time.Sleep ends, whatever has become of the context, and
\* ParseChapter returns
PoliteDelay ==
  /\ pc = "sleep"
  /\ ParseReturn(parseOut)
  /\ parseOut' = NoParse
  /\ UNCHANGED <<site, configured, opt, cfg, store, startURL, ctxDone, current, i, all,
                 resp, bodyOpen, doc,
                 requests, getCalls, outcomes, hrefs, saves, arg, ret>>

\* r.store.Save(ch), which may fail
Save ==
  /\ pc = "save"
  /\ \E o \in SaveOutcomes(ch) :
       /\ saves' = Append(saves, [ch |-> ch, ok |-> o.exit = "ok"])
       /\ disk' = FSSave(disk, ch, o)
       /\ IF o.exit = "ok" THEN pc' = "append" /\ UNCHANGED <<result, stop>>
          ELSE Fail("save chapter")
  /\ UNCHANGED <<site, configured, opt, cfg, parseOut, store, startURL, ctxDone, current, i, all,
                 resp, bodyOpen, doc, ch, next,
                 requests, getCalls, outcomes, parsed, hrefs, arg, ret>>

\* all = append(all, ch), then advance to the next page or break
Advance ==
  /\ pc = "append"
  /\ all' = AppendChapter(all, ch)
  /\ LET nxt == resolveURL(current, next.val)
         why == IF ~next.ok THEN "nonext"
                ELSE IF TrimSpace(next.val) = <<>> THEN "blank"
                ELSE IF nxt = <<>> THEN "unresolved"
                ELSE ""
     IN IF why # ""
        THEN /\ pc' = "done"
             /\ result' = OkResult(all')
             /\ stop' = why
             /\ UNCHANGED <<current, i, hrefs>>
        ELSE /\ current' = nxt
             /\ i' = i + 1
             /\ hrefs' = Append(hrefs, next.val)
             /\ pc' = "loop"
             /\ UNCHANGED <<result, stop>>
  /\ UNCHANGED <<site, configured, opt, cfg, parseOut, store, startURL, ctxDone,
                 resp, bodyOpen, doc, ch, next,
                 requests, getCalls, outcomes, parsed, saves, disk, arg, ret>>

\* the caller cancels the context (Ctrl+C in cmd/gwp)
Cancel ==
  /\ pc \in {"loop", "wait", "do", "await", "read", "parse", "sleep", "save", "append"}
  /\ ~ctxDone
  /\ ctxDone' = TRUE
  /\ UNCHANGED <<site, configured, opt, cfg, parseOut, store, startURL, pc, current, i, all,
                 resp, bodyOpen, doc, ch, next, result, histVars, disk, arg, ret>>

Next ==
  \/ LoopTest
  \/ LimWait
  \/ HttpSend
  \/ HttpError
  \/ HttpResponse
  \/ ReadBody
  \/ Parse
  \/ PoliteDelay
  \/ Save
  \/ Advance
  \/ Cancel

Spec == Init /\ [][Next]_vars

\* where Run may stand
Positions == {"loop", "wait", "do", "await", "read", "parse", "sleep", "save", "append", "done"}

\* Run moves on: every step of Run changes its position, and the caller's
\* cancellation does not, so under Next these are the steps of Run itself
RunStep == pc # "done" /\ pc' \in Positions \ {pc}

\* the crawl when no step of Run waits for ever: the limiter grants its
\* token after the delay, the client's Timeout ends a request and the read
\* of its body (cmd/gwp sets 15 s), ParseChapter's sleep ends after
\* PoliteDelaySec seconds, and the rest is sequential code
FairSpec == Spec /\ WF_pc(RunStep)

\* the crawl of a site of one page that links on by a generated href, from
\* a documented or a short start URL, with a budget of two pages
InitFollow ==
  /\ site \in {{LinkPage(h)} : h \in Hrefs}
  /\ cfg = DefaultParserConfig
  /\ configured \in {2}
  /\ opt = [MaxPages |-> NewRunnerMaxPages(configured), SaveEach |-> TRUE]
  /\ store = TRUE
  /\ startURL \in {EXAMPLE_BASE, START_URL}
  /\ RunEntry
  /\ Idle

SpecFollow == InitFollow /\ [][Next]_vars

\* ------------------------------------------------------------------------
\* nextURL on generated documents: a head with at most one link element and
\* a body of at most MaxAnchors anchors
\* ------------------------------------------------------------------------
\* most anchors of a generated document
MaxAnchors == 2

\* the link element of the head: none, rel=next with an href, rel=next
\* without one, rel=next with an empty one, rel=prev with an href, and one
\* with the attributes rel=prev, rel=next and an href
LinkKinds == {"none", "href", "bare", "empty", "prev", "both"}

\* the anchors: a NextTexts text with an href, one without, a text that
\* only contains "next" with an href, one without, another text with an href
AnchorKinds == {"exact", "exactbare", "fuzzy", "fuzzybare", "other"}

LINK_HREF == <<"/", "l">>

PREV_LOWER == <<"p", "r", "e", "v">>

\* the href of the j-th anchor
AnchorHref(j) == <<"/", "a">> \o [k \in 1..j |-> "x"]

AnchorText(kind) ==
  CASE kind = "exact" -> <<" ">> \o NEXT_CHAPTER \o <<"\n">>
    [] kind = "exactbare" -> NEXT_TEXT
    [] kind = "fuzzy" -> <<"t", "h", "e", " ", "N", "E", "X", "T", " ", "o", "n", "e">>
    [] kind = "fuzzybare" -> <<"n", "e", "x", "t", ">">>
    [] kind = "other" -> <<"P", "r", "e", "v">>

AnchorHasHref(kind) == kind \in {"exact", "fuzzy", "other"}

LinkElems(kind) ==
  CASE kind = "none" -> <<>>
    [] kind = "href" -> <<LinkNext(LINK_HREF)>>
    [] kind = "bare" -> <<ElA("link", <<<<"rel", NEXT_LOWER>>>>, <<>>)>>
    [] kind = "empty" -> <<LinkNext(<<>>)>>
    [] kind = "prev" -> <<ElA("link", <<<<"rel", PREV_LOWER>>, <<"href", LINK_HREF>>>>, <<>>)>>
    [] kind = "both" -> <<ElA("link", <<<<"rel", PREV_LOWER>>, <<"rel", NEXT_LOWER>>,
                                        <<"href", LINK_HREF>>>>, <<>>)>>

AnchorElem(kind, j) ==
  ElA("a", IF AnchorHasHref(kind) THEN <<<<"href", AnchorHref(j)>>>> ELSE <<>>,
      <<Txt(AnchorText(kind))>>)

\* the document of a function input [link, anchors]
BuildDoc(a) ==
  HtmlDoc(LinkElems(a.link),
          <<El("p", <<Txt(S("a", "b", "c", "d"))>>)>>
            \o [j \in 1..Len(a.anchors) |-> AnchorElem(a.anchors[j], j)])

NextURLInputs ==
  {[link |-> l, anchors |-> as] :
     l \in LinkKinds, as \in UNION {[1..n -> AnchorKinds] : n \in 0..MaxAnchors}}

\* no crawl is running: a function is called on its own
InitCall ==
  /\ site = {}
  /\ cfg = DefaultParserConfig
  /\ configured = 1
  /\ opt = [MaxPages |-> NewRunnerMaxPages(configured), SaveEach |-> FALSE]
  /\ store = FALSE
  /\ startURL = <<>>
  /\ pc = "call"
  /\ RunFresh
  /\ ret = <<>>

InitNextURL == InitCall /\ arg \in NextURLInputs

\* nextURL(doc, cfg) on the document of the input
CallNextURL ==
  /\ pc = "call"
  /\ ret' = nextURL(BuildDoc(arg), DefaultParserConfig)
  /\ pc' = "return"
  /\ UNCHANGED <<site, configured, opt, cfg, parseOut, store, startURL, ctxDone, current, i, all,
                 resp, bodyOpen, doc, ch, next, result, histVars, disk, arg>>

SpecNextURL == InitNextURL /\ [][CallNextURL]_vars

\* ------------------------------------------------------------------------
\* ParseChapter on generated documents: a body with one block element whose
\* children are drawn from a list of kinds, under a configuration with a
\* MinTextLen of 0, a scene-break style and a line-break threshold
\* ------------------------------------------------------------------------
\* most children of the block of a generated document
MaxKids == 2

\* most children of the block of a document generated for line-break runs
MaxRunKids == 4

\* the characters of a text that need escaping
SPECIAL_TEXT == <<"<", "b", ">", "&", "\"", "'">>

\* the child of a kind
InlineKid(kind) ==
  CASE kind = "a" -> Txt(<<"a">>)
    [] kind = "sp" -> Txt(<<" ">>)
    [] kind = "nl" -> Txt(<<"\n">>)
    [] kind = "special" -> Txt(SPECIAL_TEXT)
    [] kind = "stars" -> Txt(<<"*", "*", "*">>)
    [] kind = "spaced" -> El("em", <<Txt(<<"*", " ", "*", "\n", "*">>)>>)
    [] kind = "dash" -> Txt(<<"-", "_">>)
    [] kind = "br" -> El("br", <<>>)
    [] kind = "em" -> El("em", <<Txt(<<"e">>)>>)
    [] kind = "strong" -> El("strong", <<Txt(<<"s">>), El("br", <<>>)>>)
    [] kind = "u" -> El("u", <<Txt(<<"u">>)>>)
    [] kind = "link" -> ElA("a", <<<<"href", <<"x", "\"", "<", "&">>>>>>, <<Txt(<<"l">>)>>)
    [] kind = "span" -> El("span", <<El("i", <<Txt(<<"<", "i", ">">>)>>), Comment(<<"<", "x", ">">>)>>)
    [] kind = "script" -> El("script", <<Txt(<<"<", "p", ">">>)>>)
    [] kind = "para" -> El("p", <<Txt(<<"q">>)>>)
    [] kind = "hr" -> El("hr", <<>>)
    [] kind = "next" -> Anchor(NEXT_TEXT, <<"/", "c", "2">>)
    [] kind = "navnext" -> El("nav", <<Anchor(NEXT_TEXT, <<"/", "n", "2">>)>>)
    [] kind = "postnav" ->
         ElC("div", "post-navigation", <<Anchor(NEXT_CHAPTER, <<"/", "p", "2">>)>>)
    [] kind = "footnext" -> El("footer", <<Anchor(<<"n", "e", "x", "t", "!">>, <<"/", "f", "2">>)>>)

\* the kinds an HTML parser leaves inside a p element, and those it leaves
\* only inside an li, a blockquote or a div
PhrasingKinds ==
  {"a", "sp", "nl", "special", "stars", "spaced", "dash", "br", "em", "strong",
   "u", "link", "span", "script"}

FlowKinds == {"para", "hr", "navnext", "postnav", "footnext"}

\* the sequences of at most n of the kinds that may stand inside the block
KidSeqs(kinds, block, n) ==
  UNION {[1..m -> IF block = "p" THEN kinds \ FlowKinds ELSE kinds] : m \in 0..n}

\* the block element of a function input [style, threshold, block, kids]
BlockElem(a) == El(a.block, [j \in 1..Len(a.kids) |-> InlineKid(a.kids[j])])

\* the document of the input
BlockDoc(a) == HtmlDoc(<<>>, <<BlockElem(a)>>)

\* the configuration of the input
BlockConfig(a) == ParserConfig(0, a.style, a.threshold)

\* ParseChapter on the document of the input, up to its time.Sleep: an
\* error is returned at once, a chapter at once only when PoliteDelaySec
\* is 0
CallParseChapter ==
  /\ pc = "call"
  /\ LET r == ParseChapter(BlockDoc(arg), START_URL, BlockConfig(arg))
     IN IF r.err = "" /\ BlockConfig(arg).PoliteDelaySec > 0
        THEN /\ parseOut' = [ch |-> r.ch, next |-> r.next]
             /\ pc' = "sleep"
             /\ UNCHANGED ret
        ELSE /\ ret' = r
             /\ pc' = "return"
             /\ UNCHANGED parseOut
  /\ UNCHANGED <<site, configured, opt, cfg, store, startURL, ctxDone, current, i, all,
                 resp, bodyOpen, doc, ch, next, result, histVars, disk, arg>>

\* ParseChapter's time.Sleep ends and the call returns the chapter and the
\* next href it had computed
WakeParseChapter ==
  /\ pc = "sleep"
  /\ ret' = [err |-> "", ch |-> parseOut.ch, next |-> parseOut.next]
  /\ parseOut' = NoParse
  /\ pc' = "return"
  /\ UNCHANGED <<site, configured, opt, cfg, store, startURL, ctxDone, current, i, all,
                 resp, bodyOpen, doc, ch, next, result, histVars, disk, arg>>

\* a call of ParseChapter from its entry to its return
NextParseChapter == CallParseChapter \/ WakeParseChapter

\* the inputs with the given styles, thresholds, blocks and kinds of
\* children, at most n children each
BlockInputs(styles, thresholds, blocks, kinds, n) ==
  UNION {{[style |-> st, threshold |-> th, block |-> b, kids |-> ks] :
            st \in styles, th \in thresholds, ks \in KidSeqs(kinds, b, n)} :
         b \in blocks}

\* documents with every kind of inline markup
WhitelistInputs ==
  BlockInputs({STYLE_HR, STYLE_SPACER}, {2}, {"p", "li", "blockquote", "div"},
              {"a", "special", "br", "em", "strong", "u", "link", "span", "script", "para"},
              MaxKids)

InitWhitelist == InitCall /\ arg \in WhitelistInputs

SpecWhitelist == InitWhitelist /\ [][NextParseChapter]_vars

\* documents whose block may read as a scene break, under every style
SceneBreakInputs ==
  BlockInputs({STYLE_HR, STYLE_SPACER, STYLE_NONE}, {BRThreshold}, {"p", "li", "blockquote"},
              {"stars", "spaced", "dash", "sp", "nl", "a", "br", "em", "hr"}, MaxKids)

InitSceneBreak == InitCall /\ arg \in SceneBreakInputs

SpecSceneBreak == InitSceneBreak /\ [][NextParseChapter]_vars

\* documents whose block holds runs of line breaks, under the styles that
\* produce a marker and the thresholds 1 to BRThreshold
BRRunInputs ==
  BlockInputs({STYLE_HR, STYLE_SPACER}, 1..BRThreshold, {"p", "blockquote"},
              {"a", "br", "sp"}, MaxRunKids)

InitBRRuns == InitCall /\ arg \in BRRunInputs

SpecBRRuns == InitBRRuns /\ [][NextParseChapter]_vars

\* ------------------------------------------------------------------------
\* stripNoise on generated documents: a body with a nav element, an article
\* and a footer; the article, with or without a denylisted class of its
\* own, holds children of kinds with and without noise
\* ------------------------------------------------------------------------
NoiseKid(kind) ==
  CASE kind = "p" -> El("p", <<Txt(<<"a">>)>>)
    [] kind = "nav" -> El("nav", <<El("p", <<Txt(<<"n">>)>>)>>)
    [] kind = "ads" -> ElC("div", "adsbygoogle", <<Txt(<<"x">>)>>)
    [] kind = "divnav" -> El("div", <<El("nav", <<>>), El("p", <<Txt(<<"d">>)>>)>>)
    [] kind = "figure" -> El("figure", <<El("aside", <<El("p", <<Txt(<<"f">>)>>)>>)>>)
    [] kind = "shared" -> ElC("p", "sharedaddy", <<Txt(<<"s">>)>>)
    [] kind = "script" -> El("p", <<Txt(<<"b">>), El("script", <<Txt(<<"c">>)>>)>>)
    [] kind = "span" -> El("span", <<Txt(<<"k">>)>>)

NoiseKinds == {"p", "nav", "ads", "divnav", "figure", "shared", "script", "span"}

\* the document of a function input [noisyRoot, kids]
NoiseDoc(a) ==
  LET kids == [j \in 1..Len(a.kids) |-> NoiseKid(a.kids[j])]
  IN HtmlDoc(<<>>,
             <<El("nav", <<Txt(<<"m">>)>>),
               IF a.noisyRoot THEN ElC("article", "post-meta", kids) ELSE El("article", kids),
               El("footer", <<Txt(<<"z">>)>>)>>)

NoiseInputs ==
  [noisyRoot : BOOLEAN, kids : UNION {[1..m -> NoiseKinds] : m \in 0..MaxKids}]

InitStripNoise == InitCall /\ arg \in NoiseInputs

\* stripNoise(findContent(doc)) on the document of the input
CallStripNoise ==
  /\ pc = "call"
  /\ ret' = stripNoise(NoiseDoc(arg), findContent(NoiseDoc(arg), DefaultParserConfig.SelectorCandidates)[1])
  /\ pc' = "return"
  /\ UNCHANGED <<site, configured, opt, cfg, parseOut, store, startURL, ctxDone, current, i, all,
                 resp, bodyOpen, doc, ch, next, result, histVars, disk, arg>>

SpecStripNoise == InitStripNoise /\ [][CallStripNoise]_vars

\* ------------------------------------------------------------------------
\* findContent on generated documents: a body of containers that match the
\* configured candidates, the generic fallbacks or neither, in any order,
\* and the page of frames, to which html.Parse gives no body element
\* ------------------------------------------------------------------------
ContainerKid(kind) ==
  CASE kind = "chapter" -> ElC("div", "chapter-content", <<El("p", <<Txt(S("l", "o", "n", "g"))>>)>>)
    [] kind = "article" -> El("article", <<El("p", <<Txt(<<"a">>)>>)>>)
    [] kind = "nested" -> El("article", <<ElC("div", "entry-content", <<El("p", <<Txt(<<"e">>)>>)>>)>>)
    [] kind = "entry" -> ElC("div", "entry-content", <<El("p", <<Txt(<<"e">>)>>)>>)
    [] kind = "post" -> ElC("div", "post-content", <<>>)
    [] kind = "main" -> El("main", <<El("p", <<Txt(<<"m">>)>>)>>)
    [] kind = "content" -> ElC("section", "content", <<>>)
    [] kind = "idcontent" -> [El("div", <<El("p", <<Txt(<<"i">>)>>)>>) EXCEPT !.id = "content"]
    [] kind = "plain" -> El("div", <<El("p", <<Txt(S("t", "e", "x", "t"))>>)>>)

ContainerKinds ==
  {"chapter", "article", "nested", "entry", "post", "main", "content", "idcontent", "plain"}

\* the candidate lists of a configuration: the default one, a site's own
\* order, and none
CandidateLists ==
  {DefaultParserConfig.SelectorCandidates,
   <<<<Class("chapter-content")>>, <<Tag("main")>>, <<Class("post-content")>>>>,
   <<>>}

\* html.Parse of a page of frames: html, head and frameset, and no body
FramesetDoc ==
  DocNode(<<El("html", <<El("head", <<>>), El("frameset", <<El("frame", <<>>)>>)>>)>>)

\* the document of a function input [frames, kids, candidates]
ContainerDoc(a) ==
  IF a.frames THEN FramesetDoc
  ELSE HtmlDoc(<<>>, [j \in 1..Len(a.kids) |-> ContainerKid(a.kids[j])])

FindContentInputs ==
  [frames : {FALSE}, kids : UNION {[1..m -> ContainerKinds] : m \in 0..MaxKids},
   candidates : CandidateLists]
  \cup [frames : {TRUE}, kids : {<<>>}, candidates : CandidateLists]

InitFindContent == InitCall /\ arg \in FindContentInputs

\* findContent(doc, cfg.SelectorCandidates) on the document of the input
CallFindContent ==
  /\ pc = "call"
  /\ ret' = findContent(ContainerDoc(arg), arg.candidates)
  /\ pc' = "return"
  /\ UNCHANGED <<site, configured, opt, cfg, parseOut, store, startURL, ctxDone, current, i, all,
                 resp, bodyOpen, doc, ch, next, result, histVars, disk, arg>>

SpecFindContent == InitFindContent /\ [][CallFindContent]_vars

\* ------------------------------------------------------------------------
\* titleAndCode on generated documents: h1 elements with every short text
\* over digits, the dot, letters and the space, the two titles the
\* documentation names, and heads with meta elements of several kinds
\* ------------------------------------------------------------------------
MaxTitleLen == 5

TitleChars == {"1", ".", "B", "x", " "}

TITLE_ARRIVAL ==
  <<"C", "h", "a", "p", "t", "e", "r", " ", "1", "2", ".", "3", "B", " ", "U+2014", " ",
    "A", "r", "r", "i", "v", "a", "l">>

TITLE_PROLOGUE == <<"P", "r", "o", "l", "o", "g", "u", "e">>

CODE_ARRIVAL == <<"1", "2", ".", "3", "B">>

MetaKid(kind) ==
  CASE kind = "og" -> ElA("meta", <<<<"property", OG_TITLE>>, <<"content", <<"T">>>>>>, <<>>)
    [] kind = "ogPadded" ->
         ElA("meta", <<<<"property", OG_TITLE>>, <<"content", <<" ", "2", ".", "1", " ">>>>>>, <<>>)
    [] kind = "ogBlank" -> ElA("meta", <<<<"property", OG_TITLE>>, <<"content", <<" ">>>>>>, <<>>)
    [] kind = "ogBare" -> ElA("meta", <<<<"property", OG_TITLE>>>>, <<>>)
    [] kind = "ogSecond" ->
         ElA("meta", <<<<"property", <<"a", "u", "t", "h", "o", "r">>>>,
                       <<"property", OG_TITLE>>, <<"content", <<"S">>>>>>, <<>>)
    [] kind = "named" -> ElA("meta", <<<<"name", OG_TITLE>>, <<"content", <<"N">>>>>>, <<>>)

\* the meta elements: an og:title with a content, with a padded one, with a
\* blank one, without one; one whose second property attribute is og:title;
\* one that is no og:title
MetaKinds == {"og", "ogPadded", "ogBlank", "ogBare", "ogSecond", "named"}

\* the texts of the h1 elements of the pages with meta elements
HeadingTexts == {<<>>, <<" ">>, <<" ", "H", " ">>, <<"1", ".", "2", " ", "B">>}

\* an h1 element with its text, without a text node when the text is empty
Heading(t) == IF t = <<>> THEN El("h1", <<>>) ELSE El("h1", <<El("span", <<Txt(t)>>)>>)

\* the document of a function input [h1, meta]
TitleDoc(a) ==
  HtmlDoc([j \in 1..Len(a.meta) |-> MetaKid(a.meta[j])],
          [j \in 1..Len(a.h1) |-> Heading(a.h1[j])] \o <<El("p", <<Txt(<<"a">>)>>)>>)

TitleInputs ==
  [h1 : {<<t>> : t \in UNION {[1..n -> TitleChars] : n \in 1..MaxTitleLen}
                       \cup {TITLE_ARRIVAL, TITLE_PROLOGUE}},
   meta : {<<>>}]
  \cup [h1 : UNION {[1..n -> HeadingTexts] : n \in 0..MaxKids},
        meta : UNION {[1..n -> MetaKinds] : n \in 0..MaxKids}]

InitTitle == InitCall /\ arg \in TitleInputs

\* titleAndCode(doc) on the document of the input
CallTitleAndCode ==
  /\ pc = "call"
  /\ ret' = titleAndCode(TitleDoc(arg))
  /\ pc' = "return"
  /\ UNCHANGED <<site, configured, opt, cfg, parseOut, store, startURL, ctxDone, current, i, all,
                 resp, bodyOpen, doc, ch, next, result, histVars, disk, arg>>

SpecTitle == InitTitle /\ [][CallTitleAndCode]_vars

\* documents whose block holds runs of line breaks, under the style "none"
BRNoneInputs ==
  BlockInputs({STYLE_NONE}, 2..BRThreshold, {"p", "blockquote"}, {"a", "br", "sp"}, MaxRunKids)

InitBRNone == InitCall /\ arg \in BRNoneInputs

SpecBRNone == InitBRNone /\ [][NextParseChapter]_vars

\* documents whose content root holds paragraphs and links to the next
\* page, bare or inside denylisted elements
PaginationInputs ==
  BlockInputs({STYLE_HR}, {BRThreshold}, {"article", "div"},
              {"para", "next", "navnext", "postnav", "footnext"}, MaxKids + 1)

InitPagination == InitCall /\ arg \in PaginationInputs

SpecPagination == InitPagination /\ [][NextParseChapter]_vars

\* ------------------------------------------------------------------------
\* paragraphsWithInline on generated content roots: an article whose
\* children are items of several kinds, the texts of the item at position j
\* beginning with the digit j
\* ------------------------------------------------------------------------
\* most items of a generated content root
MaxItems == 3

\* the texts of the item at position j
Mark(j) == <<"1", "2", "3", "4", "5">>[j]
TextX(j) == <<Mark(j), "x">>
TextY(j) == <<Mark(j), "y">>

\* the item of a kind at position j
FlowItem(kind, j) ==
  CASE kind = "p" -> El("p", <<Txt(TextX(j))>>)
    [] kind = "hr" -> El("hr", <<>>)
    [] kind = "stars" -> El("p", <<Txt(<<"*", "*", "*">>)>>)
    [] kind = "brs" ->
         El("p", <<Txt(TextX(j)), El("br", <<>>), El("br", <<>>), Txt(TextY(j))>>)
    [] kind = "ibrs" ->
         El("p", <<El("i", <<Txt(TextX(j)), El("br", <<>>), El("br", <<>>), Txt(TextY(j))>>)>>)
    [] kind = "onlybrs" -> El("p", <<El("br", <<>>), El("br", <<>>)>>)
    [] kind = "quote" -> El("blockquote", <<El("p", <<Txt(TextX(j))>>)>>)
    [] kind = "list" -> El("ul", <<El("li", <<Txt(TextX(j))>>), El("li", <<Txt(TextY(j))>>)>>)
    [] kind = "lip" -> El("ul", <<El("li", <<El("p", <<Txt(TextX(j))>>)>>)>>)
    [] kind = "bqhr" ->
         El("blockquote", <<Txt(TextX(j)), El("hr", <<>>), El("div", <<Txt(TextY(j))>>)>>)

FlowKindsAll ==
  {"p", "hr", "stars", "brs", "ibrs", "onlybrs", "quote", "list", "lip", "bqhr"}

\* the content root of a function input [style, items]
FlowRoot(a) == El("article", [j \in 1..Len(a.items) |-> FlowItem(a.items[j], j)])

\* the configuration of the input: line-break runs collapse from two on
FlowConfig(a) == ParserConfig(0, a.style, 2)

FlowInputs(kinds) ==
  [style : {STYLE_HR, STYLE_SPACER, STYLE_NONE},
   items : UNION {[1..m -> kinds] : m \in 0..MaxItems}]

\* paragraphsWithInline(root, cfg) on the content root of the input
CallParagraphs ==
  /\ pc = "call"
  /\ ret' = paragraphsWithInline(FlowRoot(arg), FlowConfig(arg))
  /\ pc' = "return"
  /\ UNCHANGED <<site, configured, opt, cfg, parseOut, store, startURL, ctxDone, current, i, all,
                 resp, bodyOpen, doc, ch, next, result, histVars, disk, arg>>

\* content roots of every kind of item
InitBlocks == InitCall /\ arg \in FlowInputs(FlowKindsAll)

SpecBlocks == InitBlocks /\ [][CallParagraphs]_vars

\* ------------------------------------------------------------------------
\* properties of the crawl, of resolveURL and of nextURL
\* ------------------------------------------------------------------------
Last(s) == s[Len(s)]

\* C1: when Run stops because the last page of a chain has no next link, it
\* returns no error and exactly one Chapter per fetched page, in visit
\* order; the k-th Chapter's URL is the address of the k-th request, and the
\* first request went to startURL.
C1_OneChapterPerPageOfTheChain ==
  stop = "nonext" =>
    /\ pc = "done"
    /\ result.err = ""
    /\ Len(result.chapters) = Len(requests)
    /\ result.chapters = parsed
    /\ requests[1] = startURL
    /\ \A k \in 1..Len(requests) : result.chapters[k].URL = requests[k]

\* a chain of three pages has been crawled to its end
C1_ThreePageChainCrawled ==
  /\ stop = "nonext"
  /\ Len(result.chapters) = 3
  /\ Len(requests) = 3
  /\ result.err = ""

\* C2: when a fetch, the reading of the HTML, the chapter parser or the
\* Saver fails, Run is over and has returned an error and no chapter, on
\* whatever page the failure came.
C2_FailureReturnsNoChapters ==
  LET failed == pc = "done" /\ result.err # "" /\ result.chapters = <<>>
  IN /\ stop \in {"get", "parse html", "parse chapter", "save chapter"} => failed
     /\ result.err # "" => failed
     /\ (outcomes # <<>> /\ (Last(outcomes) = 0 \/ Last(outcomes) >= 400)) => failed
     /\ (saves # <<>> /\ ~Last(saves).ok) => failed

\* the Saver failed on the third page, after two chapters had been collected
C2_LateFailureDiscardsChapters ==
  /\ stop = "save chapter"
  /\ Len(all) = 2
  /\ Len(parsed) = 3
  /\ result.chapters = <<>>
  /\ result.err # ""

\* C3: a page is rejected as too short exactly when the trimmed plain text
\* of its rebuilt body has fewer than MinTextLen characters: an accepted
\* page has at least MinTextLen characters, and a rejected one fewer.
C3_RejectedExactlyBelowMinTextLenCharacters ==
  /\ pc \in {"save", "append"} => RuneCount(plainText(ch.HTML)) >= cfg.MinTextLen
  /\ stop = "parse chapter" =>
       /\ RuneCount(plainText(bodyHTMLOf(doc, cfg))) < cfg.MinTextLen
       /\ result.err # "" /\ result.chapters = <<>>

\* C4: Run calls Get, sends requests and returns chapters at most MaxPages
\* times, a configured MaxPages below 1 counting as 1; when it stops on the
\* budget a next URL is known and has not been requested.
C4_AtMostMaxPagesFetches ==
  LET budget == IF configured < 1 THEN 1 ELSE configured
  IN /\ getCalls <= budget
     /\ Len(requests) <= budget
     /\ Len(all) <= budget
     /\ Len(result.chapters) <= budget
     /\ stop = "budget" =>
          /\ pc = "done"
          /\ current # <<>>
          /\ Len(hrefs) = budget
          /\ Len(requests) = budget
          /\ Len(result.chapters) = budget

\* a MaxPages of 0 let one page be fetched, and its next link was left alone
C4_ZeroBudgetFetchesOnePage ==
  /\ stop = "budget"
  /\ configured = 0
  /\ Len(requests) = 1
  /\ Len(hrefs) = 1
  /\ Len(result.chapters) = 1

\* C5: with SaveEach and a store, the calls of Save are the parsed chapters
\* in visit order, one each, only the last of them may have failed, a
\* parsed chapter is saved before anything else happens, and no request
\* goes out before the chapters of all earlier pages are saved; without
\* SaveEach or without a store Save is never called.
C5_SaveOncePerParsedPage ==
  LET enabled == opt.SaveEach /\ store
  IN /\ ~enabled => saves = <<>>
     /\ Len(saves) <= Len(parsed)
     /\ \A k \in 1..Len(saves) : saves[k].ch = parsed[k]
     /\ \A k \in 1..(Len(saves) - 1) : saves[k].ok
     /\ enabled =>
          /\ Len(saves) = Len(parsed) - (IF pc = "save" THEN 1 ELSE 0)
          /\ Len(requests) <= Len(saves) + 1
          /\ pc = "await" => Len(saves) = Len(requests) - 1

\* two pages were crawled and each chapter was saved
C5_TwoPagesSaved ==
  /\ opt.SaveEach /\ store
  /\ stop = "nonext"
  /\ Len(saves) = 2
  /\ Len(requests) = 2
  /\ saves[2].ch = parsed[2]

\* C6: at most one request is unanswered at any time, and a request goes out
\* only when every page requested before it has been parsed.
C6_OnePageInFlight ==
  /\ Len(requests) - Len(outcomes) \in {0, 1}
  /\ (Len(requests) - Len(outcomes) = 1) <=> (pc = "await")
  /\ Len(requests) <= Len(parsed) + 1
  /\ pc = "await" => Len(parsed) = Len(requests) - 1

\* the third page is being fetched, the first two are parsed
C6_ThirdFetchAfterTwoParsed ==
  /\ pc = "await"
  /\ Len(requests) = 3
  /\ Len(parsed) = 2
  /\ Len(outcomes) = 2

\* C7: when Run stops because the page has no next link, because the next
\* href is blank or does not resolve, or because the budget is used up, it
\* returns no error and every chapter parsed, the current page's included.
C7_QuietStopsReturnAllChapters ==
  /\ stop \in {"nonext", "blank", "unresolved", "budget"} =>
       /\ pc = "done"
       /\ result.err = ""
       /\ result.chapters = parsed
       /\ Len(result.chapters) = Len(requests)
       /\ Len(result.chapters) >= 1
  /\ stop = "nonext" => ~next.ok
  /\ stop = "blank" => next.ok /\ TrimSpace(next.val) = <<>>
  /\ stop = "unresolved" =>
       next.ok /\ TrimSpace(next.val) # <<>> /\ resolveURL(current, next.val) = <<>>

\* the second page's next href did not resolve: both chapters are returned
C7_UnresolvableHrefReturnsBoth ==
  /\ stop = "unresolved"
  /\ Len(result.chapters) = 2
  /\ result.err = ""

\* https://site.example/b/ch2 and https://site.example/other/ch2
EXAMPLE_CH2 == SubSeq(EXAMPLE_BASE, 1, Len(EXAMPLE_BASE) - 3) \o <<"c", "h", "2">>

EXAMPLE_OTHER_CH2 ==
  SubSeq(EXAMPLE_BASE, 1, Len(EXAMPLE_BASE) - 6)
    \o <<"/", "o", "t", "h", "e", "r", "/", "c", "h", "2">>

\* C8: the URL requested for the second page is the first page's next href
\* resolved against the first page's URL: an href that, trimmed of white
\* space, parses with a scheme and a host is requested as the URL parser
\* writes it back (the scheme in lower case, the rest escaped), whatever the
\* page's URL is; any other href is resolved against the page's URL by
\* reference resolution, so that from https://site.example/b/ch1 the href
\* "ch2" gives https://site.example/b/ch2 and "/other/ch2" gives
\* https://site.example/other/ch2.
C8_NextFetchIsTheResolvedHref ==
  (pc = "await" /\ Len(requests) = 2) =>
    LET base == requests[1]
        t == TrimSpace(hrefs[1])
        p == urlParse(t)
    IN /\ base = startURL
       /\ t # <<>>
       /\ p.ok
       /\ IF p.url.Scheme # <<>> /\ p.url.Host # <<>>
          THEN requests[2] =
                 p.url.Scheme \o <<":">> \o escapePath(Drop(t, Len(p.url.Scheme) + 1))
          ELSE requests[2] = urlString(ResolveReference(urlParse(base).url, p.url))
       /\ (base = EXAMPLE_BASE /\ hrefs[1] = <<"c", "h", "2">>)
            => requests[2] = EXAMPLE_CH2
       /\ (base = EXAMPLE_BASE /\ hrefs[1] = <<"/", "o", "t", "h", "e", "r", "/", "c", "h", "2">>)
            => requests[2] = EXAMPLE_OTHER_CH2

\* the documented scenario: ch2 is requested after ch1
C8_DocumentedRelativeHref ==
  /\ pc = "await"
  /\ requests = <<EXAMPLE_BASE, EXAMPLE_CH2>>
  /\ hrefs = <<<<"c", "h", "2">>>>

\* C8 as stated: an href that carries a scheme and a host is requested
\* unchanged.
C8_AbsoluteHrefRequestedUnchanged ==
  (pc = "await" /\ Len(requests) = 2) =>
    LET p == urlParse(hrefs[1])
    IN (p.ok /\ p.url.Scheme # <<>> /\ p.url.Host # <<>>) => requests[2] = hrefs[1]

\* the precedence of nextURL on the document of the input: the link's
\* href; else the href of the first anchor with a NextTexts text and
\* an href; else that of the first anchor whose text contains "next", if it
\* has one
ExpectedNext(a) ==
  LET exacts == {j \in 1..Len(a.anchors) : a.anchors[j] = "exact"}
      fuzzies == {j \in 1..Len(a.anchors) :
                    a.anchors[j] \in {"exact", "exactbare", "fuzzy", "fuzzybare"}}
      first(js) == CHOOSE j \in js : \A k \in js : j <= k
  IN IF a.link \in {"href", "both"} THEN [ok |-> TRUE, val |-> LINK_HREF]
     ELSE IF exacts # {} THEN [ok |-> TRUE, val |-> AnchorHref(first(exacts))]
     ELSE IF fuzzies # {} /\ a.anchors[first(fuzzies)] = "fuzzy"
          THEN [ok |-> TRUE, val |-> AnchorHref(first(fuzzies))]
     ELSE [ok |-> FALSE, val |-> <<>>]

\* C9: nextURL returns the href of the rel=next link when the document has
\* one with an href, whatever its anchors; otherwise the href of the first
\* anchor in document order whose trimmed text is a NextTexts entry and
\* that has an href; otherwise the href of the first anchor whose text
\* contains "next" in any case.
C9_NextURLPrecedence ==
  pc = "return" => ret = ExpectedNext(arg)

\* a rel=next link and a "Next Chapter" anchor with another target, behind
\* an anchor that only contains "next": the link's href is returned
C9_LinkBeatsNextChapterAnchor ==
  /\ pc = "return"
  /\ arg = [link |-> "href", anchors |-> <<"fuzzy", "exact">>]
  /\ ret = [ok |-> TRUE, val |-> LINK_HREF]

\* C10: Get sends at most one request per call; a status of 400 or above,
\* like a request that fails, is the last thing that happens: Run is over
\* with an error and no chapters, Get returned no response, the body is
\* closed, and no request follows.
C10_ErrorStatusFailsWithoutRetry ==
  /\ Len(requests) <= getCalls
  /\ getCalls <= Len(requests) + 1
  /\ \A k \in 1..Len(outcomes) :
       (outcomes[k] >= 400 \/ outcomes[k] = 0) =>
         /\ k = Len(outcomes)
         /\ k = Len(requests)
         /\ getCalls = Len(requests)
         /\ pc = "done"
         /\ result.err = "get" /\ result.chapters = <<>>
         /\ resp = NoResp
         /\ ~bodyOpen
  /\ \A k \in 1..Len(outcomes) :
       (outcomes[k] > 0 /\ outcomes[k] < 400 /\ k = Len(outcomes) /\ pc = "read") =>
         resp.status = outcomes[k] /\ bodyOpen

\* the second page answered 400: Run failed and nothing was requested after
C10_SecondPageAnswers400 ==
  /\ outcomes = <<200, 400>>
  /\ Len(requests) = 2
  /\ getCalls = 2
  /\ stop = "get"
  /\ pc = "done"

\* C11 as stated: Get hands a response to its caller only when the status
\* code is in 200..299.
C11_ResponseOnlyFor2xx ==
  resp # NoResp => resp.status \in 200..299

\* C12: a request is sent only by a Get that has passed the limiter's wait,
\* and only while the context is not cancelled; a Get that starts or waits
\* after the cancellation ends Run with an error; once the context is
\* cancelled no further request is sent.
C12_NoRequestAfterCancellation ==
  [][/\ requests' # requests =>
          /\ pc = "do" /\ ~ctxDone
          /\ requests' = Append(requests, current)
     /\ pc' = "do" => (pc = "do" \/ (pc = "wait" /\ ~ctxDone))
     /\ (ctxDone /\ pc \in {"wait", "do"} /\ pc' # pc) =>
          /\ pc' = "done"
          /\ result'.err = "get" /\ result'.chapters = <<>>
     /\ ctxDone => requests' = requests]_vars

\* the context was cancelled after the first page: the second Get failed
\* and sent nothing
C12_SecondGetCancelled ==
  /\ ctxDone
  /\ pc = "done"
  /\ stop = "get"
  /\ getCalls = 2
  /\ Len(requests) = 1
  /\ outcomes = <<200>>
  /\ Len(parsed) = 1

\* the files FS.Save writes for a chapter when it ends well
SavedFiles(c) == FSSave(EmptyDisk, c, SaveOk)[ChapterSlug(c)]

\* C13 as it is stated: a step that ends Run with an error returns no
\* chapter, and every chapter of an earlier page whose Save ended well is on
\* disk as it was written, whatever was saved after it.
C13_AbortKeepsSavedChapters ==
  [][(pc # "done" /\ pc' = "done" /\ result'.err # "") =>
       /\ result'.chapters = <<>>
       /\ \A k \in 1..Len(saves') :
            saves'[k].ok
            => /\ ChapterSlug(saves'[k].ch) \in DOMAIN disk'
               /\ disk'[ChapterSlug(saves'[k].ch)] = SavedFiles(saves'[k].ch)]_vars

\* C13: a step that ends Run with an error returns no chapter and removes
\* or rewrites nothing in the store, except that a failing Save may have
\* written under the directory of the chapter it was saving; a cancellation
\* changes nothing in the store; so when Run has failed, every directory is
\* still there and every chapter whose Save ended well is on disk as it was
\* written, unless a later page, the one whose Save failed included, was
\* saved under the same directory.
C13_AbortKeepsChaptersNotSavedOver ==
  [][/\ (pc # "done" /\ pc' = "done" /\ result'.err # "") =>
          /\ result'.chapters = <<>>
          /\ \A d \in DOMAIN disk :
               /\ d \in DOMAIN disk'
               /\ (pc = "save" /\ d = ChapterSlug(ch)) \/ disk'[d] = disk[d]
          /\ \A k \in 1..Len(saves') :
               (/\ saves'[k].ok
                /\ \A j \in (k + 1)..Len(saves') :
                     ChapterSlug(saves'[j].ch) # ChapterSlug(saves'[k].ch))
               => /\ ChapterSlug(saves'[k].ch) \in DOMAIN disk'
                  /\ disk'[ChapterSlug(saves'[k].ch)] = SavedFiles(saves'[k].ch)
     /\ ctxDone' # ctxDone => disk' = disk]_vars

\* the context was cancelled on the third page after two chapters had been
\* saved under directories of their own: Run returned an error and no
\* chapter, both are on disk
C13_TwoSavedThenCancelled ==
  /\ pc = "done"
  /\ result.err # "" /\ result.chapters = <<>>
  /\ ctxDone
  /\ Len(requests) = 3
  /\ Len(saves) = 2
  /\ saves[1].ok /\ saves[2].ok
  /\ ChapterSlug(saves[1].ch) # ChapterSlug(saves[2].ch)
  /\ disk[ChapterSlug(saves[1].ch)] = SavedFiles(saves[1].ch)
  /\ disk[ChapterSlug(saves[2].ch)] = SavedFiles(saves[2].ch)

\* the tags of the whitelist, as they are written; the a tag is opened with
\* an href
AllowedTags ==
  {<<"<">> \o P_TAG \o <<">">>, <<"<", "/">> \o P_TAG \o <<">">>,
   <<"<">> \o BLOCKQUOTE_TAG \o <<">">>, <<"<", "/">> \o BLOCKQUOTE_TAG \o <<">">>,
   I_OPEN, I_CLOSE, B_OPEN, B_CLOSE, U_OPEN, U_CLOSE, A_CLOSE, BR_HTML,
   HR_HTML, SPACER_HTML}

\* a text in which the angle brackets and the quotes are escaped and every
\* ampersand starts an entity
RECURSIVE EscapedText(_)
EscapedText(t) ==
  IF t = <<>> THEN TRUE
  ELSE IF Head(t) \in {"<", ">", "\"", "'"} THEN FALSE
  ELSE IF Head(t) = "&"
       THEN \E e \in {AMP, LT, GT, APOS, QUOT} :
              HasPrefix(t, e) /\ EscapedText(Drop(t, Len(e)))
  ELSE EscapedText(Tail(t))

\* the length of the whitelisted tag at the head of s, 0 when there is none
TagLenAt(s) ==
  LET fixed == {t \in AllowedTags : HasPrefix(s, t)}
      rest == Drop(s, Len(A_OPEN))
      q == IndexOf(rest, <<"\"">>)
  IN IF fixed # {} THEN Len(CHOOSE t \in fixed : \A u \in fixed : Len(t) >= Len(u))
     ELSE IF /\ HasPrefix(s, A_OPEN)
             /\ q > 0
             /\ HasPrefix(Drop(rest, q), <<">">>)
             /\ EscapedText(SubSeq(rest, 1, q - 1))
          THEN Len(A_OPEN) + q + 1
     ELSE 0

\* an HTML made of whitelisted tags and escaped text only
RECURSIVE OnlyWhitelisted(_)
OnlyWhitelisted(s) ==
  IF s = <<>> THEN TRUE
  ELSE IF Head(s) = "<" THEN TagLenAt(s) > 0 /\ OnlyWhitelisted(Drop(s, TagLenAt(s)))
  ELSE IF Head(s) \in {">", "\"", "'"} THEN FALSE
  ELSE IF Head(s) = "&"
       THEN \E e \in {AMP, LT, GT, APOS, QUOT} :
              HasPrefix(s, e) /\ OnlyWhitelisted(Drop(s, Len(e)))
  ELSE OnlyWhitelisted(Tail(s))

\* C14: the HTML of a produced Chapter is made of the tags p, blockquote,
\* b, i, u, a (with its href), br and the two markers, and of escaped text:
\* the text of the source appears escaped, the children of an element that
\* is not on the whitelist are kept without it, and nothing of a script
\* element remains.
C14_WhitelistClosure ==
  pc = "return" =>
    LET html == ret.ch.HTML
        has(k) == \E j \in 1..Len(arg.kids) : arg.kids[j] = k
    IN /\ ret.err = ""
       /\ OnlyWhitelisted(html)
       /\ arg.block # "div" =>
            /\ has("special") =>
                 Contains(html, LT \o <<"b">> \o GT \o AMP \o QUOT \o APOS)
            /\ has("span") =>
                 Contains(html, I_OPEN \o LT \o <<"i">> \o GT \o I_CLOSE)
            /\ has("link") =>
                 Contains(html, A_OPEN \o <<"x">> \o QUOT \o LT \o AMP \o A_OPEN_END
                                  \o <<"l">> \o A_CLOSE)
       /\ ~Contains(html, LT \o <<"p">>)

\* a blockquote with a span around an i element and a text of special
\* characters came out as one block of escaped text without the span
C14_SpanUnwrappedTextEscaped ==
  /\ pc = "return"
  /\ arg.block = "blockquote"
  /\ arg.kids = <<"span", "special">>
  /\ ret.ch.HTML =
       wrapBlock(BLOCKQUOTE_TAG,
                 I_OPEN \o LT \o <<"i">> \o GT \o I_CLOSE
                   \o LT \o <<"b">> \o GT \o AMP \o QUOT \o APOS)

\* the text a kind of child carries
KidText(kind) ==
  CASE kind = "a" -> <<"a">>
    [] kind = "sp" -> <<" ">>
    [] kind = "nl" -> <<"\n">>
    [] kind = "special" -> SPECIAL_TEXT
    [] kind = "stars" -> <<"*", "*", "*">>
    [] kind = "spaced" -> <<"*", " ", "*", "\n", "*">>
    [] kind = "dash" -> <<"-", "_">>
    [] kind = "em" -> <<"e">>
    [] kind = "strong" -> <<"s">>
    [] kind = "u" -> <<"u">>
    [] kind = "link" -> <<"l">>
    [] kind = "span" -> <<"<", "i", ">">>
    [] kind = "script" -> <<"<", "p", ">">>
    [] kind = "para" -> <<"q">>
    [] OTHER -> <<>>

\* the text of the block of an input with its white space collapsed
OwnText(a) == Join(Fields(Concat([j \in 1..Len(a.kids) |-> KidText(a.kids[j])])), <<" ">>)

\* C15: a p, li or blockquote whose collapsed text matches a configured
\* scene-break pattern yields the marker of the style and nothing else: the
\* rule for "hr", the empty paragraph for "spacer", nothing at all for
\* "none"; no text and no formatting of the block is emitted.
C15_SceneBreakBlockBecomesOneMarker ==
  (pc = "return" /\ isSceneBreakText(OwnText(arg), BlockConfig(arg).SceneBreakPatterns)) =>
    /\ ret.err = ""
    /\ ret.ch.HTML = (IF arg.style = STYLE_SPACER THEN SPACER_HTML
                      ELSE IF arg.style = STYLE_NONE THEN <<>>
                      ELSE HR_HTML)

\* an li with three spaced asterisks in an em element and a line break,
\* under the style "spacer", came out as the empty paragraph alone
C15_SpacedAsterisksAsSpacer ==
  /\ pc = "return"
  /\ arg.style = STYLE_SPACER
  /\ arg.block = "li"
  /\ arg.kids = <<"spaced", "br">>
  /\ OwnText(arg) = <<"*", " ", "*", " ", "*">>
  /\ ret.ch.HTML = SPACER_HTML

\* the number of occurrences of sub in s, counted from the left without
\* overlap
RECURSIVE CountOf(_, _)
CountOf(s, sub) ==
  IF Len(s) < Len(sub) THEN 0
  ELSE IF HasPrefix(s, sub) THEN 1 + CountOf(Drop(s, Len(sub)), sub)
  ELSE CountOf(Tail(s), sub)

\* the runs of line breaks among the children of a block: the numbers of
\* br elements between one text and the next, white space not counting as
\* text
RECURSIVE BRRunsOf(_, _)
BRRunsOf(kids, n) ==
  IF kids = <<>> THEN (IF n > 0 THEN <<n>> ELSE <<>>)
  ELSE IF Head(kids) = "br" THEN BRRunsOf(Tail(kids), n + 1)
  ELSE IF Head(kids) = "sp" THEN BRRunsOf(Tail(kids), n)
  ELSE (IF n > 0 THEN <<n>> ELSE <<>>) \o BRRunsOf(Tail(kids), 0)

\* the markers and the line breaks left when the runs of at least n line
\* breaks become one marker each and the shorter runs stay
MarkersFor(kids, n) ==
  Cardinality({k \in 1..Len(BRRunsOf(kids, 0)) : BRRunsOf(kids, 0)[k] >= n})

RECURSIVE SumShort(_, _)
SumShort(runs, n) ==
  IF runs = <<>> THEN 0
  ELSE (IF Head(runs) < n THEN Head(runs) ELSE 0) + SumShort(Tail(runs), n)

\* the output holds one marker for each run of at least n line breaks and
\* the line breaks of the shorter runs
CollapsedAt(n) ==
  /\ ret.err = ""
  /\ CountOf(ret.ch.HTML, emitSceneBreak(arg.style)) = MarkersFor(arg.kids, n)
  /\ CountOf(ret.ch.HTML, BR_HTML) = SumShort(BRRunsOf(arg.kids, 0), n)

\* C16 as stated: for every positive threshold n, a run of n or more line
\* breaks becomes one marker and a run of n - 1 stays.
C16_RunsCollapseForEveryPositiveThreshold ==
  (pc = "return" /\ arg.threshold >= 1) => CollapsedAt(arg.threshold)

\* C16: for every threshold n of 2 or more and the styles "hr" and
\* "spacer", each run of n or more line breaks inside a block becomes one
\* marker and each shorter run, one of n - 1 included, stays as it is; with
\* a threshold of 1 no run is collapsed.
C16_RunsCollapseFromThresholdTwo ==
  /\ (pc = "return" /\ arg.threshold >= 2) => CollapsedAt(arg.threshold)
  /\ (pc = "return" /\ arg.threshold = 1) =>
       /\ CountOf(ret.ch.HTML, emitSceneBreak(arg.style)) = 0
       /\ CountOf(ret.ch.HTML, BR_HTML) = SumShort(BRRunsOf(arg.kids, 0), Len(arg.kids) + 1)

\* with the threshold 3, a run of three line breaks before a text became
\* the rule, and the paragraph holds the text alone
C16_ThreeBreaksBecomeOneRule ==
  /\ pc = "return"
  /\ arg.threshold = 3
  /\ arg.kids = <<"br", "br", "br", "a">>
  /\ arg.block = "p"
  /\ ret.ch.HTML = HR_HTML \o NEWLINE \o wrapBlock(P_TAG, <<"a">>)

\* an element of the denylist
IsNoise(n) == \E k \in 1..Len(NoiseSelectors) : MatchesCompound(n, NoiseSelectors[k])

\* the nodes below the node at path c of the document d that neither are
\* denylisted nor lie in a denylisted element below c: their depth, kind,
\* name, classes and text, in document order
KeptBelow(d, c) ==
  LET ps == DescPaths(NodeAt(d, c), c)
      keep(q) == \A k \in (Len(c) + 1)..Len(q) : ~IsNoise(NodeAt(d, SubSeq(q, 1, k)))
      label(q) == <<Len(q), NodeAt(d, q).kind, NodeAt(d, q).name, NodeAt(d, q).class,
                    NodeAt(d, q).data>>
  IN Concat([k \in 1..Len(ps) |-> IF keep(ps[k]) THEN <<label(ps[k])>> ELSE <<>>])

\* the path of the article of a generated document
ARTICLE_PATH == <<1, 2, 2>>

\* C17: stripNoise applied to its own result changes nothing; the document
\* outside the content node, and the content node itself, are as they were;
\* below the content node exactly the denylisted elements and what they
\* hold are gone, and every other node is kept in its place.
C17_StripNoiseIdempotentAndScoped ==
  pc = "return" =>
    LET d == NoiseDoc(arg)
        c == ARTICLE_PATH
    IN /\ findContent(d, DefaultParserConfig.SelectorCandidates) = <<c>>
       /\ stripNoise(ret, c) = ret
       /\ ReplaceAt(ret, c, NodeAt(d, c)) = d
       /\ NodeAt(ret, c).name = "article" /\ NodeAt(ret, c).class = NodeAt(d, c).class
       /\ KeptBelow(ret, c) = KeptBelow(d, c)
       /\ \A q \in {DescPaths(NodeAt(ret, c), c)[k] : k \in 1..Len(DescPaths(NodeAt(ret, c), c))} :
            ~IsNoise(NodeAt(ret, q))

\* an article with a denylisted class of its own, holding a div with a nav
\* element and a paragraph, and a paragraph: the inner nav is gone, the div,
\* the paragraphs, the article and the nav and footer outside it are there
C17_InnerNavRemovedOuterKept ==
  /\ pc = "return"
  /\ arg = [noisyRoot |-> TRUE, kids |-> <<"divnav", "p">>]
  /\ NodeAt(ret, ARTICLE_PATH) =
       ElC("article", "post-meta",
           <<El("div", <<El("p", <<Txt(<<"d">>)>>)>>), El("p", <<Txt(<<"a">>)>>)>>)
  /\ NodeAt(ret, <<1, 2, 1>>) = El("nav", <<Txt(<<"m">>)>>)
  /\ NodeAt(ret, <<1, 2, 3>>) = El("footer", <<Txt(<<"z">>)>>)

\* C18: findContent returns the first match of the first candidate, in the
\* configured order, that matches anything, whatever the length of its text;
\* when no candidate matches, the first generic container (article, main,
\* .content, #content); otherwise the body of the document; and it never
\* returns nothing.
FirstOf(d, group) == Find(d, <<>>, group)[1]

C18_FindContentNeverEmpty ==
  pc = "return" =>
    LET d == ContainerDoc(arg)
        cs == arg.candidates
        Hit(k) == Find(d, <<>>, <<cs[k]>>) # <<>>
        generic == Find(d, <<>>, FallbackSelectors)
    IN /\ Len(ret) = 1
       /\ \A k \in 1..Len(cs) :
            (Hit(k) /\ \A j \in 1..(k - 1) : ~Hit(j)) => ret = <<FirstOf(d, <<cs[k]>>)>>
       /\ ((\A k \in 1..Len(cs) : ~Hit(k)) /\ generic # <<>>) => ret = <<generic[1]>>
       /\ ((\A k \in 1..Len(cs) : ~Hit(k)) /\ generic = <<>>) =>
            NodeAt(d, ret[1]).name = "body"

\* the title from lo to hi is digits, a dot and digits
IsNumber(t, lo, hi) ==
  \E a \in (lo + 1)..(hi - 1) :
    /\ t[a] = "."
    /\ \A k \in (lo..hi) \ {a} : IsDigit(t[k])

\* C19 as stated: the Code is a substring of the title of the form digits,
\* dot, digits and at most one capital letter when the title has such a
\* substring, and the full title otherwise.
C19_CodeIsNumberSubstring ==
  pc = "return" =>
    LET t == ret[1]
        plain == {<<lo, hi>> \in (1..Len(t)) \X (1..Len(t)) :
                    \/ IsNumber(t, lo, hi)
                    \/ hi > lo /\ IsNumber(t, lo, hi - 1) /\ IsUpper(t[hi])}
    IN IF plain = {} THEN ret[2] = t
       ELSE \E m \in plain : ret[2] = SubSeq(t, m[1], m[2])

\* a word character on exactly one side of the gap after t[k]
WordEdge(t, k) ==
  (k >= 1 /\ IsWordChar(t[k])) # (k < Len(t) /\ IsWordChar(t[k + 1]))

\* the title from lo to hi is digits, a dot, digits, any white space and at
\* most one capital letter, and it begins and ends at the edge of a word
IsCodeMatch(t, lo, hi) ==
  /\ WordEdge(t, lo - 1)
  /\ WordEdge(t, hi)
  /\ \E b \in lo..hi, c \in lo..hi :
       /\ b <= c
       /\ IsNumber(t, lo, b)
       /\ \A k \in (b + 1)..c : IsReSpace(t[k])
       /\ c = hi \/ (c = hi - 1 /\ IsUpper(t[hi]))

\* a match with its white space reduced to one space and trimmed
CodeText(m) ==
  LET k == CHOOSE k \in 0..Len(m) :
             /\ \A x \in 1..k : ~IsReSpace(m[x])
             /\ k = Len(m) \/ IsReSpace(m[k + 1])
  IN IF k = Len(m) THEN m
     ELSE IF IsReSpace(m[Len(m)]) THEN SubSeq(m, 1, k)
     ELSE SubSeq(m, 1, k) \o <<" ", m[Len(m)]>>

\* C19, amended: the Code is the leftmost, longest substring of the title
\* made of digits, a dot, digits, optional white space and an optional
\* single capital letter that begins and ends at a word boundary, with its
\* white space reduced to one space and trimmed, when the title has such a
\* substring, and the full title otherwise.
C19_CodeIsBoundedNumberOrTitle ==
  pc = "return" =>
    LET t == ret[1]
        ms == {<<lo, hi>> \in (1..Len(t)) \X (1..Len(t)) : IsCodeMatch(t, lo, hi)}
        best == CHOOSE m \in ms :
                  \A o \in ms : m[1] < o[1] \/ (m[1] = o[1] /\ m[2] >= o[2])
    IN IF ms = {} THEN ret[2] = t
       ELSE ret[2] = CodeText(SubSeq(t, best[1], best[2]))

C19_ArrivalYieldsItsNumber ==
  /\ pc = "return"
  /\ arg.h1 = <<TITLE_ARRIVAL>>
  /\ ret = <<TITLE_ARRIVAL, CODE_ARRIVAL>>

\* the first meta element of the input that is an og:title, if any
FirstOg(a) ==
  LET ogs == {j \in 1..Len(a.meta) : a.meta[j] # "named"}
  IN IF ogs = {} THEN "none" ELSE a.meta[CHOOSE j \in ogs : \A k \in ogs : j <= k]

\* C20: the Title is the first that is not empty after trimming of the text
\* of the first h1, the content of the og:title meta element and the
\* literal "Untitled Chapter"; the Title and the Code are never empty.
C20_TitleByPrecedenceNeverEmpty ==
  pc = "return" =>
    LET heading == IF arg.h1 = <<>> THEN <<>> ELSE TrimSpace(arg.h1[1])
        og == FirstOg(arg)
        content == IF og = "og" THEN <<"T">>
                   ELSE IF og = "ogSecond" THEN <<"S">>
                   ELSE IF og = "ogPadded" THEN <<"2", ".", "1">>
                   ELSE <<>>
    IN /\ ret[1] = IF heading # <<>> THEN heading
                   ELSE IF content # <<>> THEN content
                   ELSE UNTITLED
       /\ ret[1] # <<>>
       /\ ret[2] # <<>>

C20_BlankHeadingFallsToOgTitle ==
  /\ pc = "return"
  /\ arg.h1 = <<<<" ">>, <<" ", "H", " ">>>>
  /\ arg.meta = <<"named", "ogPadded">>
  /\ ret = <<<<"2", ".", "1">>, <<"2", ".", "1">>>>

\* C21: with the style "none", each run of ConsecutiveBRThreshold or more
\* line breaks inside a block is deleted: the emitted body holds no marker
\* and only the line breaks of the shorter runs.
C21_LongRunsDeletedUnderNone ==
  pc = "return" =>
    /\ ret.err = ""
    /\ CountOf(ret.ch.HTML, HR_HTML) = 0
    /\ CountOf(ret.ch.HTML, SPACER_HTML) = 0
    /\ CountOf(ret.ch.HTML, BR_HTML) = SumShort(BRRunsOf(arg.kids, 0), arg.threshold)

\* C22: the next URL ParseChapter returns for a document is the one the
\* pagination resolver finds in the document as it was parsed, also when the
\* link lies in a denylisted subtree of the content root.
C22_NextURLOfTheParsedDocument ==
  pc = "return" =>
    /\ ret.err = ""
    /\ ret.next = nextURL(BlockDoc(arg), BlockConfig(arg))

\* the marker of the style of the input, and it as a sequence of blocks
MarkerOf(a) ==
  IF a.style = STYLE_SPACER THEN SPACER_HTML
  ELSE IF a.style = STYLE_NONE THEN <<>>
  ELSE HR_HTML

MarkerBlocks(a) == IF a.style = STYLE_NONE THEN <<>> ELSE <<MarkerOf(a)>>

IsMarker(b) == b = HR_HTML \/ b = SPACER_HTML

PBlock(t) == <<"<", "p", ">">> \o t \o <<"<", "/", "p", ">">>

QuoteBlock(t) ==
  <<"<", "b", "l", "o", "c", "k", "q", "u", "o", "t", "e", ">">> \o t
    \o <<"<", "/", "b", "l", "o", "c", "k", "q", "u", "o", "t", "e", ">">>

TwoBreaks == <<"<", "b", "r", "/", ">", "<", "b", "r", "/", ">">>

\* C23: no emitted p or blockquote block holds a marker; a block whose
\* body holds a marker is emitted as the text before it, the marker as a
\* block of its own and the text after it, in that order, and no text
\* block is empty.
C23_MarkersNeverInsideBlocks ==
  pc = "return" =>
    /\ \A k \in 1..Len(ret) :
         \/ IsMarker(ret[k])
         \/ /\ CountOf(ret[k], HR_HTML) = 0
            /\ CountOf(ret[k], SPACER_HTML) = 0
            /\ ret[k] # PBlock(<<>>)
            /\ ret[k] # QuoteBlock(<<>>)
    /\ \A j \in 1..Len(arg.items) :
         (arg.items[j] \in {"brs", "ibrs"} /\ arg.style # STYLE_NONE) =>
           LET open == IF arg.items[j] = "ibrs" THEN <<"<", "i", ">">> ELSE <<>>
               close == IF arg.items[j] = "ibrs" THEN <<"<", "/", "i", ">">> ELSE <<>>
           IN \E k \in 1..(Len(ret) - 2) :
                /\ ret[k] = PBlock(open \o TextX(j))
                /\ ret[k + 1] = MarkerOf(arg)
                /\ ret[k + 2] = PBlock(TextY(j) \o close)

C23_ParagraphSplitAtItsRule ==
  /\ pc = "return"
  /\ arg = [style |-> STYLE_HR, items |-> <<"hr", "brs">>]
  /\ ret = <<HR_HTML, PBlock(TextX(2)), HR_HTML, PBlock(TextY(2))>>

\* a sequence of blocks without the markers that follow a marker
Squeeze(raw) ==
  Concat([k \in 1..Len(raw) |->
            IF k > 1 /\ IsMarker(raw[k]) /\ IsMarker(raw[k - 1]) THEN <<>> ELSE <<raw[k]>>])

\* C24: the final sequence of blocks has no two adjacent markers; it is
\* the sequence of the blocks of the elements with, of each run of
\* markers, the first alone: every other block is kept, in its place.
C24_AdjacentMarkersCollapse ==
  pc = "return" =>
    LET ns == walk(FlowRoot(arg))
        raw == Concat([k \in 1..Len(ns) |-> blocksOf(ns[k], FlowConfig(arg))])
    IN /\ \A k \in 1..(Len(ret) - 1) : ~(IsMarker(ret[k]) /\ IsMarker(ret[k + 1]))
       /\ ret = Squeeze(raw)

C24_ThreeMarkersBecomeOne ==
  /\ pc = "return"
  /\ arg = [style |-> STYLE_SPACER, items |-> <<"hr", "stars", "onlybrs">>]
  /\ ret = <<SPACER_HTML>>

\* the blocks of the item of a kind at position j, in the pre-order of its
\* p, li, blockquote and hr elements
ItemBlocks(a, j) ==
  LET kind == a.items[j]
      none == a.style = STYLE_NONE
  IN CASE kind = "p" -> <<PBlock(TextX(j))>>
       [] kind = "hr" -> MarkerBlocks(a)
       [] kind = "stars" -> MarkerBlocks(a)
       [] kind = "brs" ->
            IF none THEN <<PBlock(TextX(j) \o TwoBreaks \o TextY(j))>>
            ELSE <<PBlock(TextX(j)), MarkerOf(a), PBlock(TextY(j))>>
       [] kind = "ibrs" ->
            IF none
            THEN <<PBlock(<<"<", "i", ">">> \o TextX(j) \o TwoBreaks \o TextY(j)
                            \o <<"<", "/", "i", ">">>)>>
            ELSE <<PBlock(<<"<", "i", ">">> \o TextX(j)), MarkerOf(a),
                   PBlock(TextY(j) \o <<"<", "/", "i", ">">>)>>
       [] kind = "onlybrs" -> IF none THEN <<PBlock(TwoBreaks)>> ELSE MarkerBlocks(a)
       [] kind = "quote" -> <<QuoteBlock(TextX(j)), PBlock(TextX(j))>>
       [] kind = "list" -> <<PBlock(TextX(j)), PBlock(TextY(j))>>
       [] kind = "lip" -> <<PBlock(TextX(j)), PBlock(TextX(j))>>
       [] kind = "bqhr" -> <<QuoteBlock(TextX(j) \o TextY(j))>> \o MarkerBlocks(a)

\* C25: the blocks are emitted in the pre-order of the p, li, blockquote
\* and hr elements below the content root: the blocks of an element stand
\* before those of every element that follows it in pre-order.
C25_BlocksInDocumentPreOrder ==
  pc = "return" =>
    ret = Squeeze(Concat([j \in 1..Len(arg.items) |-> ItemBlocks(arg, j)]))

C25_NestedAndSiblingOrderKept ==
  /\ pc = "return"
  /\ arg = [style |-> STYLE_HR, items |-> <<"quote", "bqhr", "list">>]
  /\ ret = <<QuoteBlock(TextX(1)), PBlock(TextX(1)), QuoteBlock(TextX(2) \o TextY(2)),
             HR_HTML, PBlock(TextX(3)), PBlock(TextY(3))>>

\* the blocks of the result that hold the text t
BlocksWith(t) == {k \in 1..Len(ret) : CountOf(ret[k], t) > 0}

\* C29: every text node below the content root contributes to at most one
\* emitted block, also when block elements are nested.
C29_NoTextInTwoBlocks ==
  pc = "return" =>
    \A j \in 1..Len(arg.items) :
      /\ Cardinality(BlocksWith(TextX(j))) <= 1
      /\ Cardinality(BlocksWith(TextY(j))) <= 1

\* C30: in every emitted p or blockquote block each inline tag that is
\* opened is closed: the block holds as many closing as opening tags of
\* each of i, b, u and a.
C30_InlineTagsClosedInTheirBlock ==
  pc = "return" =>
    \A k \in 1..Len(ret) :
      /\ CountOf(ret[k], I_OPEN) = CountOf(ret[k], I_CLOSE)
      /\ CountOf(ret[k], B_OPEN) = CountOf(ret[k], B_CLOSE)
      /\ CountOf(ret[k], U_OPEN) = CountOf(ret[k], U_CLOSE)
      /\ CountOf(ret[k], A_OPEN) = CountOf(ret[k], A_CLOSE)

\* C26: when no rel=next link and no anchor with a NextTexts text yields an
\* href, and some anchor with an href has a text that contains "next",
\* nextURL returns an href, also when an earlier anchor whose text contains
\* "next" has none.
C26_LaterFuzzyAnchorIsFound ==
  (/\ pc = "return"
   /\ arg.link \notin {"href", "both"}
   /\ \A j \in 1..Len(arg.anchors) : arg.anchors[j] # "exact"
   /\ \E j \in 1..Len(arg.anchors) : arg.anchors[j] = "fuzzy")
  => ret.ok

\* C27: Run ends, and it enters its loop body at most MaxPages times, also
\* when the next links lead back to a page already fetched: only the page
\* budget, a missing next link or an error ends the crawl.
C27_RunEndsWithinPageBudget ==
  /\ <>(pc = "done")
  /\ [](getCalls <= opt.MaxPages /\ Len(requests) <= opt.MaxPages)

\* the crawl fetched the same address twice and ended when the budget of
\* three pages was used up
C27_CycleEndedByBudget ==
  /\ pc = "done"
  /\ stop = "budget"
  /\ result.err = ""
  /\ getCalls = opt.MaxPages
  /\ Len(requests) = 3
  /\ requests[2] = requests[3]

\* C28 as stated: whenever Run returns a nil error it returns at least one
\* chapter, for every startURL and every MaxPages.
C28_SuccessHasAChapter ==
  (pc = "done" /\ result.err = "") => Len(result.chapters) >= 1

\* C28, amended: whenever Run returns a nil error it returns at least one
\* chapter, for every startURL that is not empty and every MaxPages.
C28_SuccessFromAStartURLHasAChapter ==
  (pc = "done" /\ result.err = "" /\ startURL # <<>>) => Len(result.chapters) >= 1

\* a Runner configured with a budget of -1 pages crawled one page
C28_NegativeBudgetCrawlsOnePage ==
  /\ pc = "done"
  /\ configured = -1
  /\ startURL = START_URL
  /\ result.err = ""
  /\ Len(result.chapters) = 1

====
